---------------------------- MODULE Spec2Model ----------------------------
(***************************************************************************)
(* WetStringReverb: a state-machine model of the audio engine.             *)
(*                                                                         *)
(* Numbers.  The program computes in IEEE floats; the model computes in    *)
(* integers (fixed point), and every quantity names its unit:              *)
(*   parameter cells and smoothed values   tenths of the parameter's unit  *)
(*                                         (roomSize: hundredths)          *)
(*   FDN delay lengths                     hundredths of a sample          *)
(*   audio samples                         1/AudioOne                      *)
(* Host inputs (sample rate, block size, block contents, parameter writes) *)
(* are drawn from small sets named in the section "Bounds".                *)
(***************************************************************************)
EXTENDS Integers, Sequences, FiniteSets, TLC

(***************************************************************************)
(* Bounds of the model (host inputs and exploration depth).                *)
(***************************************************************************)
\* host sample rate handed to prepareToPlay (Hz)
BaseRate == 1000
\* host block size handed to prepareToPlay (samples)
MaxBlock == 4
\* number of processBlock calls explored
MaxBlocks == 3
\* number of host parameter writes explored
MaxWrites == 1

(***************************************************************************)
(* Integer helpers.                                                        *)
(***************************************************************************)
Abs(x) == IF x < 0 THEN -x ELSE x

Min(a, b) == IF a < b THEN a ELSE b

Max(a, b) == IF a > b THEN a ELSE b

\* C++ integer / float-to-int conversion truncates toward zero.
TruncDiv(a, b) == IF a >= 0 THEN a \div b ELSE -((-a) \div b)

RECURSIVE Pow2(_)
Pow2(k) == IF k <= 0 THEN 1 ELSE 2 * Pow2(k - 1)


(***************************************************************************)
(* 32-bit linear congruential generator, x <- 1664525*x + 1013904223       *)
(* (mod 2^32), kept as two 16-bit limbs <<high, low>> so that no           *)
(* intermediate product leaves the 32-bit integer range.                   *)
(*   1664525    = 25 * 65536 + 26125                                       *)
(*   1013904223 = 15470 * 65536 + 62303                                    *)
(***************************************************************************)
LcgNext(rng) ==
    LET lowProd == rng[2] * 26125 + 62303
        highSum == rng[1] * 26125 + rng[2] * 25 + 15470 + (lowProd \div 65536)
    IN  << highSum % 65536, lowProd % 65536 >>

\* rng % m, for a small modulus m
LcgMod(rng, m) == ((rng[1] % m) * (65536 % m) + rng[2]) % m

\* a sign taken from the lowest bit
LcgSignLowBit(rng) == IF rng[2] % 2 = 1 THEN -1 ELSE 1

\* (rng & 0x80000000u) ? -1 : +1
LcgSign(rng) == IF rng[1] >= 32768 THEN -1 ELSE 1

(***************************************************************************)
(* juce::SmoothedValue<float, Linear> as the processor uses it.  A         *)
(* smoother is [cur, tgt, cnt, step]: current value, target, countdown     *)
(* and per-sample increment.                                               *)
(***************************************************************************)
\* ramp length kSmoothTimeSeconds, in milliseconds
kSmoothTimeMs == 10

\* reset (sampleRate, kSmoothTimeSeconds): stepsToTarget = floor (ramp * rate)
StepsToTarget(sampleRate) == (kSmoothTimeMs * sampleRate) \div 1000

\* setCurrentAndTargetValue
SvSnap(v) == [cur |-> v, tgt |-> v, cnt |-> 0, step |-> 0]

\* setTargetValue
SvSetTarget(sv, v, steps) ==
    IF v = sv.tgt THEN sv
    ELSE IF steps <= 0 THEN SvSnap(v)
    ELSE [cur |-> sv.cur, tgt |-> v, cnt |-> steps,
          step |-> TruncDiv(v - sv.cur, steps)]

\* getNextValue: one step of the ramp; the last step lands on the target
SvNext(sv) ==
    IF sv.cnt <= 0 THEN sv
    ELSE IF sv.cnt - 1 > 0
         THEN [sv EXCEPT !.cnt = sv.cnt - 1, !.cur = sv.cur + sv.step]
         ELSE [sv EXCEPT !.cnt = 0, !.cur = sv.tgt]

\* skip (n): n steps at once
SvSkip(sv, n) ==
    IF n >= sv.cnt THEN [SvSnap(sv.tgt) EXCEPT !.step = sv.step]
    ELSE [sv EXCEPT !.cnt = sv.cnt - n, !.cur = sv.cur + sv.step * n]

\* n calls of getNextValue
RECURSIVE SvAdvance(_, _)
SvAdvance(sv, n) == IF n <= 0 THEN sv ELSE SvAdvance(SvNext(sv), n - 1)

(***************************************************************************)
(* ReverbMixer.  Audio samples and gains are in units of 1/AudioOne.       *)
(***************************************************************************)
AudioOne == 1000

\* product of two fixed-point numbers, rounded toward zero
Mul(a, b) == TruncDiv(a * b, AudioOne)

\* 10^(dB/20) for dB given in tenths: 2^(dB/6) with the fraction of an
\* octave interpolated linearly (the model has no pow)
DbToGain(dbTenths) ==
    LET k == dbTenths \div 60
        f == dbTenths - 60 * k
        m == AudioOne + (AudioOne * f) \div 60
    IN  IF k >= 0 THEN m * Pow2(k)
        ELSE IF k = -1 THEN m \div 2
        ELSE IF k = -2 THEN m \div 4
        ELSE IF k = -3 THEN m \div 8
        ELSE m \div 16

\* a mixer whose dry and wet gains are exchanged
MixerSetExchanged(dryWet, earlyLevel, lateLevel, stereoWidth) ==
    [wet         |-> AudioOne - dryWet,
     dry         |-> dryWet,
     earlyGain   |-> DbToGain(earlyLevel),
     lateGain    |-> DbToGain(lateLevel),
     stereoWidth |-> stereoWidth]

\* ReverbMixer::setParameters
MixerSet(dryWet, earlyLevel, lateLevel, stereoWidth) ==
    [wet         |-> dryWet,
     dry         |-> AudioOne - dryWet,
     earlyGain   |-> DbToGain(earlyLevel),
     lateGain    |-> DbToGain(lateLevel),
     stereoWidth |-> stereoWidth]

\* x^3 / 6.75 for |x| <= 1.5, rounded toward zero: with x^2 = 1000 a + b
\* (in millionths), x^3 / 6.75 = a x / 6750 + b x / 6750000
CubeOver(x) ==
    LET m  == Abs(x)
        a  == (m * m) \div AudioOne
        b  == (m * m) % AudioOne
        q  == (a * m) \div 6750 + (((a * m) % 6750) * AudioOne + b * m) \div 6750000
    IN  IF x < 0 THEN -q ELSE q

\* a soft clipper whose cubic term is half as large
softClipHalfCube(x) ==
    IF x > (3 * AudioOne) \div 2 THEN AudioOne
    ELSE IF x < -((3 * AudioOne) \div 2) THEN -AudioOne
    ELSE x - CubeOver(x) \div 2

\* softClip: x - x^3/6.75 on |x| <= 1.5, +-1 beyond
softClip(x) ==
    IF x > (3 * AudioOne) \div 2 THEN AudioOne
    ELSE IF x < -((3 * AudioOne) \div 2) THEN -AudioOne
    ELSE x - CubeOver(x)

\* killDenormal zeroes a float whose exponent field is 0; no fixed-point
\* value other than 0 is subnormal
killDenormal(x) == IF Abs(x) < 1 THEN 0 ELSE x

\* ReverbMixer::process; in = [dryL, dryR, earlyL, earlyR, lateL, lateR,
\* dvnL, dvnR]; the result is <<outL, outR>>
MixerProcess(mx, in) ==
    LET wetL0 == Mul(mx.earlyGain, in.earlyL) + Mul(mx.lateGain, in.lateL + in.dvnL)
        wetR0 == Mul(mx.earlyGain, in.earlyR) + Mul(mx.lateGain, in.lateR + in.dvnR)
        mid   == TruncDiv(wetL0 + wetR0, 2)
        side  == TruncDiv(wetL0 - wetR0, 2)
        wetL  == mid + Mul(side, mx.stereoWidth)
        wetR  == mid - Mul(side, mx.stereoWidth)
    IN  << killDenormal(softClip(Mul(mx.dry, in.dryL) + Mul(mx.wet, wetL))),
           killDenormal(softClip(Mul(mx.dry, in.dryR) + Mul(mx.wet, wetR))) >>


(***************************************************************************)
(* FDNReverb, delay geometry: sample rate, delay-line buffer size, target  *)
(* and smoothed delay lengths, the delay each DelayLine was last set to,   *)
(* and the LFO.  Delay lengths are in hundredths of a sample.              *)
(***************************************************************************)
NUM_CHANNELS == 8

Channels == 1..NUM_CHANNELS

BASE_DELAYS == << 887, 1151, 1559, 1907, 2467, 3109, 3907, 4787 >>

\* modulation headroom added to the largest delay in FDNReverb::prepare
ModHeadroom == 128

\* interpolation margin added in DelayLine::prepare
InterpMargin == 4

\* maxModSamples
maxModSamples == 16

\* smoothCoeff = 1 - exp (-1 / (sr * 0.005)), in thousandths, from
\* 1 - exp(-x) ~ x / (1 + x/2 + x^2/12)
SmoothCoeff(sr) ==
    LET x == 200000 \div sr
    IN  (x * 1000) \div (1000 + x \div 2 + (x * x) \div 12000)

\* std::sin of a phase given in 1/65536 of a turn, in thousandths, from a
\* 16-entry table
SinTable == << 0, 383, 707, 924, 1000, 924, 707, 383,
               0, -383, -707, -924, -1000, -924, -707, -383 >>

Sin(turns) == SinTable[(((turns % 65536) * 16) \div 65536) + 1]

\* DelayLine::prepare: bufferSize = maxDelaySamples + 4
DelayLinePrepare(maxDelaySamples) == maxDelaySamples + InterpMargin

\* the FDN before prepare (member initialisers)
FdnNew ==
    [sr |-> 44100, smoothCoeff |-> 10, bufferSize |-> 0, capacity |-> 0,
     targetDelays  |-> [i \in Channels |-> 0],
     currentDelays |-> [i \in Channels |-> 0],
     lineDelay     |-> [i \in Channels |-> 0],
     currentModDepth |-> 0, currentModRate |-> 50,
     bypassModulation |-> FALSE, lfoPhase |-> 0]

\* FDNReverb::reset, geometry part: the LFO restarts and the smoothed
\* delays snap to the targets
FdnResetGeometry(f) ==
    [f EXCEPT !.lfoPhase = 0, !.currentDelays = f.targetDelays]

\* FDNReverb::prepare, geometry part.  The delay lines are resized for the
\* new rate; targetDelays and each DelayLine's currentDelay are left as
\* they are.
FdnPrepareGeometry(f, sampleRate) ==
    LET maxDelay == TruncDiv(4787 * 2 * sampleRate, 44100) + ModHeadroom
        size     == DelayLinePrepare(maxDelay)
    IN  FdnResetGeometry(
          [f EXCEPT !.sr = sampleRate,
                    !.smoothCoeff = SmoothCoeff(sampleRate),
                    !.bufferSize = size,
                    !.capacity = Max(f.capacity, size),
                    !.lfoPhase = 0])

\* FDNReverb::setParameters, geometry part.  roomSize in hundredths,
\* modDepth in tenths of a percent, modRate in hundredths of a Hz.
FdnSetGeometry(f, roomSize, modDepth, modRate, bypMod) ==
    [f EXCEPT !.targetDelays =
                 [i \in Channels |-> (BASE_DELAYS[i] * roomSize * f.sr) \div 44100],
              !.currentModDepth = modDepth,
              !.currentModRate = modRate,
              !.bypassModulation = bypMod]

\* the delay channel i is set to in step 9 of processSample, given the
\* smoothed delay d
DelayToSet(f, i, d) ==
    IF f.bypassModulation THEN d
    ELSE d + TruncDiv(f.currentModDepth * maxModSamples
                        * Sin(f.lfoPhase + ((i - 1) * 65536) \div NUM_CHANNELS),
                      10000)

\* FDNReverb::processSample, geometry part: one-pole smoothing of the
\* delays (step 1), setDelay (step 9), LFO advance
FdnStepGeometry(f) ==
    LET cur == [i \in Channels |->
                  f.currentDelays[i]
                    + TruncDiv(f.smoothCoeff * (f.targetDelays[i] - f.currentDelays[i]), 1000)]
        inc == (f.currentModRate * 65536) \div (100 * f.sr)
        ph  == f.lfoPhase + inc
    IN  [f EXCEPT !.currentDelays = cur,
                  !.lineDelay = [i \in Channels |-> DelayToSet(f, i, cur[i])],
                  !.lfoPhase = IF f.bypassModulation THEN f.lfoPhase
                               ELSE IF ph > 65536 THEN ph - 65536 ELSE ph]

\* DelayLine::read reaches back currentDelay + 1 samples and interpolates
\* over the 4 taps around that position; the oldest tap is ceil(delay) + 2
\* samples old.  The read stays inside the buffer without wrapping iff that
\* age is below bufferSize.
DelayFits(delay, bufferSize) == delay + 200 < bufferSize * 100


(***************************************************************************)
(* The processor (PluginProcessor).                                        *)
(*                                                                         *)
(*   param    the atomic parameter cells the host writes                   *)
(*   smooth   the SmoothedValue bank                                       *)
(*   proc     currentSampleRate, currentBlockSize, lastOversamplingFactor, *)
(*            the suspended flag, stepsToTarget of the smoothers           *)
(*   osm      OversamplingManager: currentFactor, and the factor of the    *)
(*            juce Oversampling object it owns (-1: none)                  *)
(*   fdn      FDNReverb delay geometry                                     *)
(*   dvnArgs  what DarkVelvetNoise::setParameters was last handed          *)
(*   obs      what the last processBlock did: a log of its steps, its      *)
(*            allocations, how far it advanced each smoother, the values   *)
(*            it applied, its output peak; and running counts              *)
(*                                                                         *)
(* The cells for highRT60, hfDamping, diffusion and the saturation         *)
(* parameters feed only the FDN's audio path; their smoothers are          *)
(* advanced exactly like roomSize and are not repeated here.               *)
(***************************************************************************)
VARIABLES param, smooth, proc, osm, fdn, dvnArgs, obs

engineVars == << param, smooth, proc, osm, fdn, dvnArgs, obs >>

Smoothed == { "dryWet", "preDelay", "earlyLevel", "lateLevel", "roomSize",
              "stereoWidth", "lowRT60", "decayShape", "modDepth", "modRate" }

\* smoothers advanced with skip (numSamples), inside the FDN branch
FdnSmoothed == { "roomSize", "lowRT60", "modDepth", "modRate" }

\* smoothers advanced with getNextValue in the mixing loop
MixSmoothed == { "dryWet", "earlyLevel", "lateLevel", "stereoWidth" }

Bypasses == { "bypassEarly", "bypassFDN", "bypassDVN", "bypassModulation" }

ParamNames == Smoothed \cup Bypasses \cup { "oversampling" }

\* createParameterLayout: the defaults
ParamDefault ==
    [n \in ParamNames |->
       CASE n = "dryWet"      -> 300
         [] n = "preDelay"    -> 120
         [] n = "earlyLevel"  -> -30
         [] n = "lateLevel"   -> -60
         [] n = "roomSize"    -> 60
         [] n = "stereoWidth" -> 700
         [] n = "lowRT60"     -> 25
         [] n = "decayShape"  -> 400
         [] n = "modDepth"    -> 150
         [] n = "modRate"     -> 50
         [] n = "oversampling" -> 1
         [] OTHER             -> 0]

\* the values the host writes in the model: each range's ends or two
\* distinct legal values
ParamValues ==
    [n \in ParamNames |->
       CASE n = "dryWet"      -> { 0, 300 }
         [] n = "preDelay"    -> { 0, 120 }
         [] n = "earlyLevel"  -> { -240, -30 }
         [] n = "lateLevel"   -> { -60, 60 }
         [] n = "roomSize"    -> { 10, 100 }
         [] n = "stereoWidth" -> { 0, 700 }
         [] n = "lowRT60"     -> { 25, 120 }
         [] n = "decayShape"  -> { 400, 1000 }
         [] n = "modDepth"    -> { 150, 1000 }
         [] n = "modRate"     -> { 50, 500 }
         [] n = "oversampling" -> { 0, 1, 2 }
         [] OTHER             -> { 0, 1 }]

ObsNew ==
    [log |-> << >>, allocs |-> 0, resizes |-> 0, overrun |-> FALSE,
     osBefore |-> -1, osRead |-> -1, dvnSet |-> FALSE,
     numSamples |-> 0, numChannels |-> 0,
     adv     |-> [n \in Smoothed |-> 0],
     applied |-> [n \in Smoothed |-> 0],
     held    |-> [n \in Smoothed |-> 0],
     outPeak |-> 0, silentRun |-> 0, blocks |-> 0, writes |-> 0]

ProcessorInit ==
    /\ param = ParamDefault
    /\ smooth = [n \in Smoothed |-> SvSnap(0)]
    /\ proc = [currentSampleRate |-> 44100, currentBlockSize |-> 512,
               lastOversamplingFactor |-> -1, suspended |-> FALSE,
               stepsToTarget |-> 0, prepared |-> FALSE]
    /\ osm = [currentFactor |-> 1, oversampler |-> -1]
    /\ fdn = FdnNew
    /\ dvnArgs = [decayShape |-> 400, rt60 |-> 18]
    /\ obs = ObsNew

\* OversamplingManager::getOversampledRate
getOversampledRate(om, baseRate) ==
    IF om.currentFactor = 0 THEN baseRate ELSE baseRate * Pow2(om.currentFactor)

\* a prepare that keeps the oversampler it has when the factor is 0
OsmPrepareKeeping(om, factor) ==
    [currentFactor |-> factor,
     oversampler   |-> IF factor > 0 THEN factor ELSE om.oversampler]

\* OversamplingManager::prepare
OsmPrepare(om, factor) ==
    [currentFactor |-> factor,
     oversampler   |-> IF factor > 0 THEN factor ELSE -1]

\* number of samples processSamplesUp returns for a block of n
OsmUpLength(om, n) == IF om.oversampler # -1 THEN n * Pow2(om.oversampler) ELSE n

\* the engine state one processBlock threads through its steps
Engine(pr, om, f, lg, al, rs) ==
    [proc |-> pr, osm |-> om, fdn |-> f, log |-> lg, allocs |-> al, resizes |-> rs]

LogEntry(e, op) == [op |-> op, suspended |-> e.proc.suspended, sr |-> e.fdn.sr]

\* WetStringReverbProcessor::initializeOversampling.  Heap allocations: the
\* Oversampling object (make_unique) when factor > 0, and the 8 delay-line
\* vectors when they grow past their capacity; every delay line whose size
\* changes is a resized buffer.
initializeOversampling(e, factor) ==
    LET om == OsmPrepare(e.osm, factor)
        f  == FdnPrepareGeometry(e.fdn, getOversampledRate(om, e.proc.currentSampleRate))
    IN  [e EXCEPT !.osm = om, !.fdn = f,
                  !.allocs = e.allocs + (IF factor > 0 THEN 1 ELSE 0)
                               + (IF f.bufferSize > e.fdn.capacity THEN NUM_CHANNELS ELSE 0),
                  !.resizes = e.resizes
                               + (IF f.bufferSize # e.fdn.bufferSize THEN NUM_CHANNELS ELSE 0),
                  !.log = Append(e.log, LogEntry(e, "initializeOversampling"))]


\* juce::AudioProcessor::suspendProcessing
suspendProcessing(e, flag) ==
    LET e1 == [e EXCEPT !.proc.suspended = flag]
    IN  [e1 EXCEPT !.log = Append(e.log, LogEntry(e1, IF flag THEN "suspend" ELSE "resume"))]

\* lastOversamplingFactor = osFactor
recordFactor(e, factor) ==
    [e EXCEPT !.proc.lastOversamplingFactor = factor,
              !.log = Append(e.log, LogEntry(e, "recordFactor"))]

\* a processBlock that re-prepares but does not resume
OversamplingChangeNoResume(e, osFactor) ==
    IF osFactor # e.proc.lastOversamplingFactor
    THEN recordFactor(initializeOversampling(suspendProcessing(e, TRUE), osFactor),
                      osFactor)
    ELSE e

\* processBlock, lines 162-169: the oversampling factor is loaded once and,
\* when it differs from the factor last prepared, the engine is re-prepared
OversamplingChange(e, osFactor) ==
    IF osFactor # e.proc.lastOversamplingFactor
    THEN suspendProcessing(
           recordFactor(
             initializeOversampling(suspendProcessing(e, TRUE), osFactor),
             osFactor),
           FALSE)
    ELSE e

\* updateParameters: every smoother's target is set from its cell
updateParameters(sm, cells, steps) ==
    [n \in Smoothed |-> SvSetTarget(sm[n], cells[n], steps)]

\* a pre-delay loop that advances the smoother once per channel
PreDelaySamplePerChannel(sv, numChannels) ==
    [sv |-> SvAdvance(sv, numChannels), calls |-> numChannels]

\* the pre-delay loop, one sample: the smoother is advanced once, outside
\* the loop over the channels
PreDelaySample(sv, numChannels) == [sv |-> SvNext(sv), calls |-> 1]

\* the pre-delay loop over a block: the smoother after it, the number of
\* getNextValue calls, and the value applied to the last sample
RECURSIVE PreDelayRun(_, _, _, _)
PreDelayRun(sv, calls, n, numChannels) ==
    IF n = 0 THEN [sv |-> sv, calls |-> calls, applied |-> sv.cur]
    ELSE LET r == PreDelaySample(sv, numChannels)
         IN  PreDelayRun(r.sv, calls + r.calls, n - 1, numChannels)

\* n calls of FDNReverb::processSample: the geometry after them, and
\* whether some read or some setDelay did not fit the buffer
RECURSIVE FdnRun(_, _, _)
FdnRun(f, n, overrun) ==
    IF n = 0 THEN [fdn |-> f, overrun |-> overrun]
    ELSE LET g == FdnStepGeometry(f)
         IN  FdnRun(g, n - 1,
                    \/ overrun
                    \/ \E i \in Channels : ~DelayFits(f.lineDelay[i], f.bufferSize)
                    \/ \E i \in Channels : ~DelayFits(g.lineDelay[i], g.bufferSize))

\* the FDN branch of processBlock (lines 223-263) on the smoother bank
FdnSkip(sm, n) ==
    [k \in Smoothed |-> IF k \in FdnSmoothed THEN SvSkip(sm[k], n) ELSE sm[k]]

\* the mixing loop, one sample: the four mix smoothers advance once each,
\* the mixer takes their values and mixes the sample
MixSample(sm, sig) ==
    LET s2 == [k \in Smoothed |-> IF k \in MixSmoothed THEN SvNext(sm[k]) ELSE sm[k]]
        mx == MixerSet(s2["dryWet"].cur, s2["earlyLevel"].cur,
                       s2["lateLevel"].cur, s2["stereoWidth"].cur)
    IN  [sm |-> s2, calls |-> 1, out |-> MixerProcess(mx, sig)]

\* the mixing loop over a block (lines 289-314)
RECURSIVE MixRun(_, _, _, _, _, _)
MixRun(sm, calls, peak, n, sig, numChannels) ==
    IF n = 0 THEN [sm |-> sm, calls |-> calls, peak |-> peak]
    ELSE LET r == MixSample(sm, sig)
             p == IF numChannels >= 2 THEN Max(Abs(r.out[1]), Abs(r.out[2]))
                  ELSE Abs(r.out[1])
         IN  MixRun(r.sm, calls + r.calls, Max(peak, p), n - 1, sig, numChannels)


(***************************************************************************)
(* The processor's operations.                                             *)
(***************************************************************************)
\* the host (message thread) stores a value into a parameter cell; the
\* writes after prepareToPlay are counted against MaxWrites
HostWrite(n, v) ==
    /\ ~proc.prepared \/ obs.writes < MaxWrites
    /\ v # param[n]
    /\ param' = [param EXCEPT ![n] = v]
    /\ obs' = [obs EXCEPT !.writes = IF proc.prepared THEN obs.writes + 1 ELSE 0]
    /\ UNCHANGED << smooth, proc, osm, fdn, dvnArgs >>

\* prepareToPlay (sampleRate, samplesPerBlock)
PrepareToPlay(sampleRate, samplesPerBlock) ==
    LET osFactor == param["oversampling"]
        pr == [proc EXCEPT !.currentSampleRate = sampleRate,
                           !.currentBlockSize = samplesPerBlock,
                           !.stepsToTarget = StepsToTarget(sampleRate),
                           !.prepared = TRUE]
        e  == initializeOversampling(Engine(pr, osm, fdn, << >>, 0, 0), osFactor)
    IN  /\ ~proc.prepared
        /\ smooth' = [n \in Smoothed |-> SvSnap(param[n])]
        /\ proc' = [e.proc EXCEPT !.lastOversamplingFactor = osFactor]
        /\ osm' = e.osm
        /\ fdn' = e.fdn
        /\ obs' = [obs EXCEPT !.log = << >>, !.allocs = 0, !.resizes = 0,
                              !.overrun = FALSE,
                              !.held = [n \in Smoothed |-> 0],
                              !.silentRun = 0]
        /\ UNCHANGED << param, dvnArgs >>

\* number of consecutive full silent blocks at dryWet = 0 the model counts
SilenceBlocks == 20

\* processBlock on a buffer of numSamples samples and numChannels channels.
\* sig gives the block's audio as levels: the host's input (dry) and what
\* the three wet layers put out for it (early, late, dvn); a bypassed layer
\* puts out silence.
ProcessBlock(numSamples, numChannels, sig, maxBlocks) ==
    LET e1  == OversamplingChange(Engine(proc, osm, fdn, << >>, 0, 0),
                                  param["oversampling"])
        sm1 == updateParameters(smooth, param, proc.stepsToTarget)
        bypassEarly == param["bypassEarly"] >= 1
        bypassFDN   == param["bypassFDN"] >= 1
        bypassDVN   == param["bypassDVN"] >= 1
        bMod        == param["bypassModulation"] >= 1
        pd  == PreDelayRun(sm1["preDelay"], 0, numSamples, numChannels)
        sm2 == [sm1 EXCEPT !["preDelay"] = pd.sv]
        sm3 == IF bypassFDN THEN sm2 ELSE FdnSkip(sm2, numSamples)
        f1  == FdnSetGeometry(e1.fdn, sm3["roomSize"].cur, sm3["modDepth"].cur,
                              sm3["modRate"].cur, bMod)
        osNumSamples == OsmUpLength(e1.osm, numSamples)
        run == IF bypassFDN THEN [fdn |-> e1.fdn, overrun |-> FALSE]
               ELSE FdnRun(f1, osNumSamples, FALSE)
        log2 == IF bypassFDN THEN e1.log
                ELSE Append(e1.log,
                       [op |-> "processSample", suspended |-> e1.proc.suspended,
                        sr |-> f1.sr, n |-> osNumSamples,
                        osRate |-> OsmUpLength(e1.osm, e1.proc.currentSampleRate)])
        in  == [dryL |-> sig.dry, dryR |-> sig.dry,
                earlyL |-> IF bypassEarly THEN 0 ELSE sig.early,
                earlyR |-> IF bypassEarly THEN 0 ELSE -sig.early,
                lateL |-> IF bypassFDN THEN 0 ELSE sig.late,
                lateR |-> IF bypassFDN THEN 0 ELSE sig.late,
                dvnL |-> IF bypassDVN THEN 0 ELSE sig.dvn,
                dvnR |-> IF bypassDVN THEN 0 ELSE sig.dvn]
        mr  == MixRun(sm3, 0, 0, numSamples, in, numChannels)
    IN  /\ proc.prepared
        /\ obs.blocks < maxBlocks
        /\ proc' = e1.proc
        /\ osm' = e1.osm
        /\ fdn' = run.fdn
        /\ smooth' = mr.sm
        /\ dvnArgs' = IF bypassDVN THEN dvnArgs
                      ELSE [decayShape |-> sm3["decayShape"].cur,
                            rt60 |-> sm3["lowRT60"].cur]
        /\ obs' = [obs EXCEPT
             !.log = log2,
             !.allocs = e1.allocs,
             !.resizes = e1.resizes,
             !.overrun = run.overrun,
             !.osBefore = proc.lastOversamplingFactor,
             !.osRead = param["oversampling"],
             !.dvnSet = ~bypassDVN,
             !.numSamples = numSamples,
             !.numChannels = numChannels,
             !.adv = [n \in Smoothed |->
                        IF n = "preDelay" THEN pd.calls
                        ELSE IF n \in MixSmoothed THEN mr.calls
                        ELSE IF n \in FdnSmoothed /\ ~bypassFDN THEN numSamples
                        ELSE 0],
             !.applied = [n \in Smoothed |->
                        IF n = "preDelay" THEN pd.applied
                        ELSE IF n \in MixSmoothed THEN mr.sm[n].cur
                        ELSE IF n \in FdnSmoothed /\ ~bypassFDN THEN sm3[n].cur
                        ELSE obs.applied[n]],
             !.held = [n \in Smoothed |->
                        Min(proc.stepsToTarget + proc.currentBlockSize,
                            (IF sm1[n].tgt # smooth[n].tgt THEN 0 ELSE obs.held[n])
                              + numSamples)],
             !.outPeak = mr.peak,
             !.silentRun = IF sig.dry = 0 /\ param["dryWet"] = 0
                           THEN (IF numSamples = proc.currentBlockSize
                                 THEN Min(SilenceBlocks, obs.silentRun + 1)
                                 ELSE obs.silentRun)
                           ELSE 0,
             !.blocks = obs.blocks + 1]
        /\ UNCHANGED param


(***************************************************************************)
(* VelvetNoise / EarlyReflections (layer 1): the sparse-FIR convolver.     *)
(*                                                                         *)
(*   vn        the convolver's ring buffer (indices 0..ringSize-1) and     *)
(*             write position                                              *)
(*   vnOut     the output block of the last convolve                       *)
(*   vnHist    every input sample fed so far, oldest first (the stream x)  *)
(*   vnQuiet   -1, or the number of blocks fed since the last reset when    *)
(*             every one of them was silence                               *)
(***************************************************************************)
VARIABLES vn, vnOut, vnHist, vnQuiet

vnVars == << vn, vnOut, vnHist, vnQuiet >>

\* sample rate and largest block of the layer-1 runs
VnRate == 44100
VnMaxBlock == 512
\* length of the explored streams, in largest blocks
VnBlocks == 2

\* EarlyReflections::prepare: ovn.generate (sampleRate, 30.0f, 2000.0f, seed)
VnDurationMs == 30
VnDensity == 2000
\* ringSize = sequenceLength + 256
VnMargin == 256

VnSeed == << 57005, 48879 >>    \* 0xDEADBEEF

VnSequenceLength(sampleRate) == (sampleRate * VnDurationMs) \div 1000

VnGridSize(sampleRate) == Max(1, sampleRate \div VnDensity)

\* the pulse loop of VelvetNoise::generate: pulses m, m+1, ... as a sequence
\* of [position, sign]
RECURSIVE VnPulsesFrom(_, _, _, _, _)
VnPulsesFrom(m, numPulses, rng, gridSize, sequenceLength) ==
    IF m >= numPulses THEN << >>
    ELSE LET r1  == LcgNext(rng)
             pos == m * gridSize + LcgMod(r1, gridSize)
             r2  == LcgNext(r1)
             rest == VnPulsesFrom(m + 1, numPulses, r2, gridSize, sequenceLength)
         IN  IF pos < sequenceLength
             THEN << [position |-> pos, sign |-> LcgSign(r2)] >> \o rest
             ELSE rest

VnPulses(sampleRate, seed) ==
    VnPulsesFrom(0, VnSequenceLength(sampleRate) \div VnGridSize(sampleRate), seed,
                 VnGridSize(sampleRate), VnSequenceLength(sampleRate))

\* coefficients of the sparse FIRs are kept in millionths
CoefOne == 1000000

\* 2^-k in millionths
RECURSIVE HalfPow(_)
HalfPow(k) == IF k <= 0 THEN CoefOne ELSE HalfPow(k - 1) \div 2

\* the envelope exp (decayRate * position), decayRate = -3 ln 10 / length
\* (-60 dB over the sequence), in millionths: 10^-3 ~ 2^-10, the fraction
\* of a halving interpolated linearly
VnEnvelope(position, sequenceLength) ==
    LET len == Max(1, sequenceLength)
        k == (10 * position) \div len
        r == (10 * position) % len
    IN  HalfPow(k) - ((HalfPow(k) \div 2) \div len) * r

\* integer square root, by bisection on lo..hi
RECURSIVE ISqrtIn(_, _, _)
ISqrtIn(n, lo, hi) ==
    IF lo >= hi THEN lo
    ELSE LET mid == (lo + hi + 1) \div 2
         IN  IF mid * mid <= n THEN ISqrtIn(n, mid, hi) ELSE ISqrtIn(n, lo, mid - 1)

ISqrt(n) == ISqrtIn(n, 0, 46340)

RECURSIVE VnEnergy(_, _, _)
VnEnergy(pulses, k, sequenceLength) ==
    IF k > Len(pulses) THEN 0
    ELSE LET env == VnEnvelope(pulses[k].position, sequenceLength) \div 1000
         IN  env * env + VnEnergy(pulses, k + 1, sequenceLength)

\* normGain = 1 / sqrt (energySum) when energySum > 1e-6, else 1; energySum
\* is in millionths, the result in thousandths
VnNormGain(pulses, sequenceLength) ==
    LET energySum == VnEnergy(pulses, 1, sequenceLength)
    IN  IF energySum > 1
        THEN CoefOne \div ISqrt(energySum)
        ELSE AudioOne

\* VelvetNoise::generate: what the convolver keeps of it
VnGenerate(sampleRate, seed) ==
    LET len == VnSequenceLength(sampleRate)
        ps  == VnPulses(sampleRate, seed)
        ng  == VnNormGain(ps, len)
    IN  [sequenceLength |-> len,
         pulses   |-> ps,
         envGain  |-> [k \in 1..Len(ps) |-> Mul(VnEnvelope(ps[k].position, len), ng)],
         normGain |-> ng,
         ringSize |-> len + VnMargin]

\* the generator the layer-1 runs use
Ovn == VnGenerate(VnRate, VnSeed)

\* the ring buffer and write position generate leaves
VnFresh(g) == [ring |-> [i \in 0..(g.ringSize - 1) |-> 0], ringWritePos |-> 0]


\* the blocks a host feeds: silence, or a signal whose samples differ from
\* one instant to the next (t counts samples from the start of the stream)
VnInputs == { "silence", "signal" }

InputSample(kind, t) == IF kind = "silence" THEN 0 ELSE ((t * 7) % 1999) - 999

InputBlock(kind, t0, numSamples) ==
    [n \in 1..numSamples |-> InputSample(kind, t0 + n - 1)]

\* VelvetNoise::convolve, first loop: the block goes into the ring at
\* ringWritePos, ringWritePos + 1, ... (mod ringSize)
VnWrite(g, v, input) ==
    [i \in 0..(g.ringSize - 1) |->
        LET n == (i - v.ringWritePos + g.ringSize) % g.ringSize
        IN  IF n < Len(input) THEN input[n + 1] ELSE v.ring[i]]

\* coeff = sign * gain * envelope * normGain
VnCoeff(g, k, gain) == g.pulses[k].sign * Mul(gain, g.envGain[k])

\* readIdx of output sample n (0-based) for a pulse at pulsePos
VnReadIdx(g, ringWritePos, n, pulsePos) ==
    (ringWritePos + n - (pulsePos % g.ringSize) + g.ringSize) % g.ringSize

RECURSIVE VnAccumulate(_, _, _, _, _, _)
VnAccumulate(g, ring, ringWritePos, n, k, gain) ==
    IF k > Len(g.pulses) THEN 0
    ELSE (IF VnCoeff(g, k, gain) = 0 THEN 0
          ELSE Mul(VnCoeff(g, k, gain),
                   ring[VnReadIdx(g, ringWritePos, n, g.pulses[k].position)]))
         + VnAccumulate(g, ring, ringWritePos, n, k + 1, gain)

\* VelvetNoise::convolve: the new convolver state and the output block
VnConvolve(g, v, input, gain) ==
    LET ring == VnWrite(g, v, input)
    IN  [vn  |-> [ring |-> ring,
                  ringWritePos |-> (v.ringWritePos + Len(input)) % g.ringSize],
         out |-> [n \in 1..Len(input) |->
                    VnAccumulate(g, ring, v.ringWritePos, n - 1, 1, gain)]]

\* the sparse FIR by its definition: sum over the pulses of
\* coeff * x[t - position], x being zero before the start of the stream
StreamAt(hist, t) == IF t >= 1 /\ t <= Len(hist) THEN hist[t] ELSE 0

RECURSIVE VnDirect(_, _, _, _, _)
VnDirect(g, hist, t, k, gain) ==
    IF k > Len(g.pulses) THEN 0
    ELSE (IF VnCoeff(g, k, gain) = 0 THEN 0
          ELSE Mul(VnCoeff(g, k, gain), StreamAt(hist, t - g.pulses[k].position)))
         + VnDirect(g, hist, t, k + 1, gain)

VnInit ==
    /\ vn = VnFresh(Ovn)
    /\ vnOut = << >>
    /\ vnHist = << >>
    /\ vnQuiet = -1

\* EarlyReflections::process (input, output, numSamples, 1.0f)
ErProcess(kind, numSamples) ==
    /\ Len(vnHist) + numSamples <= VnBlocks * VnMaxBlock
    /\ LET input == InputBlock(kind, Len(vnHist), numSamples)
           r == VnConvolve(Ovn, vn, input, AudioOne)
       IN  /\ vn' = r.vn
           /\ vnOut' = r.out
           /\ vnHist' = vnHist \o input
    /\ vnQuiet' = IF kind = "silence" /\ vnQuiet >= 0 THEN vnQuiet + 1 ELSE -1

\* EarlyReflections::reset: the body is empty, the convolver is left as it is
ErReset ==
    /\ vnQuiet # 0
    /\ vnQuiet' = 0
    /\ UNCHANGED << vn, vnOut, vnHist >>


(***************************************************************************)
(* DarkVelvetNoise (layer 3): box-car pulses, running-window convolution.  *)
(*                                                                         *)
(*   dvn       the object: sample rate, pulses (position, sign, width,     *)
(*             envelope), normGain, dvnLength, inputRingBuffer, writePos   *)
(*   dvnSet    the (decayShape, rt60) the processor will hand over at the  *)
(*             next block: tenths of a percent and tenths of a second      *)
(*   dvnOut    the output block of the last process call                   *)
(*   dvnHist   every input sample fed so far, oldest first                 *)
(*   dvnWrites number of changes of dvnSet so far                          *)
(***************************************************************************)
VARIABLES dvn, dvnSet, dvnOut, dvnHist, dvnWrites

dvnVars == << dvn, dvnSet, dvnOut, dvnHist, dvnWrites >>

\* sample rate, largest block and stream length of the layer-3 runs
DvnRate == 2
DvnMaxBlock == 4
DvnStream == 32
\* changes of (decayShape, rt60) explored
DvnMaxWrites == 2

DvnSeed == << 43981, 4660 >>    \* 0xABCD1234

\* generateDVNSequence: density, pulse cap, longest tail; prepare: slack
DvnDensity == 1800
DvnPulseCap == 500
DvnTailSeconds == 3
DvnSlack == 16

\* the remainder of C++ integer division (sign of the dividend)
CRem(a, b) == a - b * TruncDiv(a, b)

\* a * b / 1000 for a beyond the range a single product allows
MulWide(a, b) ==
    LET s == IF (a < 0) = (b < 0) THEN 1 ELSE -1
        x == Abs(a)
        y == Abs(b)
    IN  s * ((x \div AudioOne) * y + ((x % AudioOne) * y) \div AudioOne)

\* exp (-x), x in thousandths, result in millionths: 2^(-x / ln 2), the
\* fraction of a halving interpolated linearly
ExpNeg(x) ==
    LET t == (x * 10) \div 7
        k == t \div 1000
        r == t % 1000
    IN  IF k > 30 THEN 0 ELSE HalfPow(k) - ((HalfPow(k) \div 2000) * r)

\* the pulse loop of generateDVNSequence
RECURSIVE DvnPulsesFrom(_, _, _, _, _)
DvnPulsesFrom(m, numPulses, rng, gridSize, dvnLength) ==
    IF m >= numPulses THEN << >>
    ELSE LET r1  == LcgNext(rng)
             pos == m * gridSize + LcgMod(r1, gridSize)
             r2  == LcgNext(r1)
             r3  == LcgNext(r2)
             rest == DvnPulsesFrom(m + 1, numPulses, r3, gridSize, dvnLength)
         IN  IF pos < dvnLength
             THEN << [position |-> pos, sign |-> LcgSign(r2),
                      width |-> 1 + LcgMod(r3, 4), envelope |-> CoefOne] >> \o rest
             ELSE rest

\* the envelope of one pulse: 0 beyond dvnLength, else the two exponentials
\* mixed by decayShape; t / tau1 = 6.9078 * position / (sr * rt60)
DvnEnvelope(d, position) ==
    IF position >= d.dvnLength THEN 0
    ELSE LET x1 == (position * 69078) \div (d.sr * d.rt60)
             x2 == (x1 * 2) \div 3
         IN  MulWide(ExpNeg(x1), AudioOne - d.decayShape)
             + MulWide(ExpNeg(x2), d.decayShape)

RECURSIVE DvnEnergy(_, _)
DvnEnergy(pulses, k) ==
    IF k > Len(pulses) THEN 0
    ELSE (pulses[k].envelope \div 1000) * (pulses[k].envelope \div 1000)
         + DvnEnergy(pulses, k + 1)

\* updateEnvelopeCoefficients: envelopes, then normGain = 1 / sqrt (energySum)
updateEnvelopeCoefficients(d) ==
    IF Len(d.pulses) = 0 THEN d
    ELSE LET ps == [k \in 1..Len(d.pulses) |->
                      [d.pulses[k] EXCEPT !.envelope = DvnEnvelope(d, d.pulses[k].position)]]
             energySum == DvnEnergy(ps, 1)
         IN  [d EXCEPT !.pulses = ps,
                       !.normGain = IF energySum > 0 THEN CoefOne \div ISqrt(energySum)
                                    ELSE AudioOne]

\* a DarkVelvetNoise as constructed
DvnNew ==
    [sr |-> 44100, decayShape |-> 400, rt60 |-> 18, dvnLength |-> 0,
     normGain |-> AudioOne, pulses |-> << >>, ringSize |-> 0,
     ring |-> << >>, writePos |-> 0]

generateDVNSequence(d, seed) ==
    LET gridSize  == Max(1, d.sr \div DvnDensity)
        dvnLength == d.sr * DvnTailSeconds
        numPulses == Min(dvnLength \div gridSize, DvnPulseCap)
    IN  updateEnvelopeCoefficients(
            [d EXCEPT !.dvnLength = dvnLength,
                      !.pulses = DvnPulsesFrom(0, numPulses, seed, gridSize, dvnLength)])

DvnRingSize(maxBlockSize, dvnLength) == maxBlockSize + dvnLength + DvnSlack

\* DarkVelvetNoise::prepare; resize keeps what the buffer held and
\* zero-fills what it adds
DvnPrepare(d, sampleRate, maxBlockSize, seed) ==
    LET g  == generateDVNSequence([d EXCEPT !.sr = sampleRate], seed)
        rs == DvnRingSize(maxBlockSize, g.dvnLength)
    IN  [g EXCEPT !.ringSize = rs,
                  !.ring = [i \in 0..(rs - 1) |-> IF i < d.ringSize THEN d.ring[i] ELSE 0],
                  !.writePos = 0]

\* DarkVelvetNoise::setParameters; maxTailSec = min (3, max (0.1, 2 rt60))
DvnSetParameters(d, decayShape, rt60) ==
    LET maxTailTenths == Min(DvnTailSeconds * 10, Max(1, rt60 * 2))
    IN  updateEnvelopeCoefficients(
            [d EXCEPT !.decayShape = decayShape, !.rt60 = rt60,
                      !.dvnLength = (d.sr * maxTailTenths) \div 10])


\* ((i % ringSize) + ringSize) % ringSize
DvnIdx(i, ringSize) == (CRem(i, ringSize) + ringSize) % ringSize

\* DarkVelvetNoise::process, first loop
DvnWrite(d, input) ==
    [i \in 0..(d.ringSize - 1) |->
        LET n == (i - d.writePos + d.ringSize) % d.ringSize
        IN  IF n < Len(input) THEN input[n + 1] ELSE d.ring[i]]

\* coeff = sign * envelope * normGain; scaledCoeff = coeff / width
DvnScaledCoeff(pulse, normGain) ==
    TruncDiv(pulse.sign * MulWide(pulse.envelope, normGain), pulse.width)

\* the window sum for output[0]: the width samples ending at base
RECURSIVE DvnWindowInit(_, _, _, _)
DvnWindowInit(ring, ringSize, base, j) ==
    IF j <= 0 THEN 0
    ELSE ring[DvnIdx(base - (j - 1), ringSize)] + DvnWindowInit(ring, ringSize, base, j - 1)

DvnAddIdx(base, n, w, ringSize) == DvnIdx(base + n, ringSize)

\* a sliding window that drops the sample one place too late
DvnRemIdxLate(base, n, w, ringSize) == DvnIdx(base + n - w + 1, ringSize)

DvnRemIdx(base, n, w, ringSize) == DvnIdx(base + n - w, ringSize)

\* the window sums for output[n], output[n+1], ...: one sample enters and
\* one leaves per step
RECURSIVE DvnWindowSlide(_, _, _, _, _, _, _)
DvnWindowSlide(ring, ringSize, base, w, n, numSamples, windowSum) ==
    IF n >= numSamples THEN << >>
    ELSE LET s == windowSum + ring[DvnAddIdx(base, n, w, ringSize)]
                            - ring[DvnRemIdx(base, n, w, ringSize)]
         IN  << s >> \o DvnWindowSlide(ring, ringSize, base, w, n + 1, numSamples, s)

\* the contribution of one pulse to every output sample of the block
DvnPulseOut(d, ring, pulse, numSamples) ==
    LET coeff == DvnScaledCoeff(pulse, d.normGain)
        base  == d.writePos - pulse.position
        w0    == DvnWindowInit(ring, d.ringSize, base, pulse.width)
        sums  == << w0 >> \o DvnWindowSlide(ring, d.ringSize, base, pulse.width,
                                            1, numSamples, w0)
    IN  [n \in 1..numSamples |-> MulWide(coeff, sums[n])]

RECURSIVE DvnSumPulses(_, _, _, _)
DvnSumPulses(d, ring, k, numSamples) ==
    IF k > Len(d.pulses) THEN [n \in 1..numSamples |-> 0]
    ELSE LET rest == DvnSumPulses(d, ring, k + 1, numSamples)
         IN  IF DvnScaledCoeff(d.pulses[k], d.normGain) * d.pulses[k].width = 0
             THEN rest
             ELSE LET mine == DvnPulseOut(d, ring, d.pulses[k], numSamples)
                  IN  [n \in 1..numSamples |-> mine[n] + rest[n]]

\* DarkVelvetNoise::process: the new object and the output block
DvnProcess(d, input, gain) ==
    LET ring == DvnWrite(d, input)
        acc  == DvnSumPulses(d, ring, 1, Len(input))
    IN  [dvn |-> [d EXCEPT !.ring = ring,
                           !.writePos = (d.writePos + Len(input)) % d.ringSize],
         out |-> [n \in 1..Len(input) |-> Mul(acc[n], gain)]]

\* DarkVelvetNoise::reset
DvnResetObject(d) ==
    [d EXCEPT !.ring = [i \in 0..(d.ringSize - 1) |-> 0], !.writePos = 0]

\* the box-car FIR by its definition: for every pulse, scaledCoeff times
\* the sum of x[t - position - j], j = 0 .. width - 1
RECURSIVE DvnBoxSum(_, _, _)
DvnBoxSum(hist, t, j) ==
    IF j <= 0 THEN 0 ELSE StreamAt(hist, t - (j - 1)) + DvnBoxSum(hist, t, j - 1)

RECURSIVE DvnDirect(_, _, _, _)
DvnDirect(d, hist, t, k) ==
    IF k > Len(d.pulses) THEN 0
    ELSE (IF DvnScaledCoeff(d.pulses[k], d.normGain) * d.pulses[k].width = 0 THEN 0
          ELSE MulWide(DvnScaledCoeff(d.pulses[k], d.normGain),
                       DvnBoxSum(hist, t - d.pulses[k].position, d.pulses[k].width)))
         + DvnDirect(d, hist, t, k + 1)

\* the (decayShape, rt60) pairs a host can bring about
DvnSettings == { << 400, 18 >>, << 0, 2 >>, << 1000, 120 >>, << 500, 5 >> }

DvnInit ==
    /\ dvn = DvnPrepare(DvnNew, DvnRate, DvnMaxBlock, DvnSeed)
    /\ dvnSet = << 400, 18 >>
    /\ dvnOut = << >>
    /\ dvnHist = << >>
    /\ dvnWrites = 0

\* the smoothed decayShape / lowRT60 the block will read take new values
DvnHostSet(decayShape, rt60) ==
    /\ dvnWrites < DvnMaxWrites
    /\ << decayShape, rt60 >> # dvnSet
    /\ dvnSet' = << decayShape, rt60 >>
    /\ dvnWrites' = dvnWrites + 1
    /\ UNCHANGED << dvn, dvnOut, dvnHist >>

\* the DVN branch of processBlock for one channel: setParameters, process
DvnBlock(kind, numSamples) ==
    /\ numSamples >= 1
    /\ Len(dvnHist) + numSamples <= DvnStream
    /\ LET input == InputBlock(kind, Len(dvnHist), numSamples)
           r == DvnProcess(DvnSetParameters(dvn, dvnSet[1], dvnSet[2]), input, AudioOne)
       IN  /\ dvn' = r.dvn
           /\ dvnOut' = r.out
           /\ dvnHist' = dvnHist \o input
    /\ UNCHANGED << dvnSet, dvnWrites >>


(***************************************************************************)
(* FDNReverb, audio path.  Samples inside the FDN are in units of 1e-7     *)
(* (FineOne is 1.0); gains and filter coefficients are in thousandths.     *)
(*                                                                         *)
(*   fdnAudio  delay-line buffers and write positions, filter registers,   *)
(*             saturator and tone-filter settings, diffuser buffers        *)
(*   fdnOut    the (outputL, outputR) pairs of the last block              *)
(*   fdnQuiet  -1, or the number of blocks fed since the last reset when   *)
(*             every one of them was silence and no parameter was set      *)
(*   fdnRuns   blocks processed and setParameters calls made so far        *)
(***************************************************************************)
VARIABLES fdnAudio, fdnOut, fdnQuiet, fdnRuns

fdnVars == << fdnAudio, fdnOut, fdnQuiet, fdnRuns >>

\* sample rate, block length, number of blocks and of setParameters calls
\* of the FDN runs
FdnRate == 4000
FdnBlockLen == 12
FdnMaxBlocks == 2
FdnMaxSets == 1

FineOne == 10000000

\* a sample in thousandths as a sample in units of 1e-7
ToFine(x) == x * (FineOne \div AudioOne)

\* tanh, from x (27 + x^2) / (27 + 9 x^2); x below 1e-3 is its own tanh to
\* within one unit, x beyond 3 gives +-1
TanhFine(x) ==
    IF Abs(x) < FineOne \div 1000 THEN x
    ELSE IF x >= 3 * FineOne THEN FineOne
    ELSE IF x <= -(3 * FineOne) THEN -FineOne
    ELSE LET t == TruncDiv(x, FineOne \div AudioOne)
             q == (t * t) \div 1000
         IN  ToFine(TruncDiv(t * (27000 + q), 27000 + 9 * q))

\* Saturation::applyNonlinearity; type 0 Soft, 1 Warm, 2 Tape, 3 Tube
applyNonlinearity(type, x) ==
    IF type = 0
    THEN LET clamped == Max(-FineOne, Min(FineOne, x))
             ct == TruncDiv(clamped, FineOne \div AudioOne)
         IN  MulWide(clamped, 1500) - ToFine(TruncDiv(Mul(Mul(ct, ct), ct), 2))
    ELSE IF type = 2
    THEN IF x >= 0 THEN TanhFine(x) ELSE MulWide(TanhFine(MulWide(x, 800)), 1250)
    ELSE IF type = 3
    THEN IF x >= 0 THEN TanhFine(MulWide(x, 1200)) ELSE TanhFine(MulWide(x, 800))
    ELSE TanhFine(x)

\* std::abs (asymmetryOffset) > 1.0e-6f
AsymmetryActive(asymmetryOffset) == Abs(asymmetryOffset) > FineOne \div 1000000

\* Saturation::setParameters; amount in tenths of a percent, drive in
\* tenths of a dB, asymmetry in units of 0.0001 percent.
\* asymmetryOffset = asymmetryPercent * 0.002
SatSetParameters(a, amount, drive, type, asymmetry) ==
    [a EXCEPT !.amount = amount,
              !.driveLinear = DbToGain(drive),
              !.type = Max(0, Min(3, type)),
              !.asymmetryOffset = asymmetry * 2]

\* Saturation::prepare: dcBlockCoeff = 1 - 2 pi 10 / sr within [0.9, 0.9999]
SatPrepare(a, sampleRate) ==
    [a EXCEPT !.dcBlockCoeff = Max(900, Min(999, 1000 - 62832 \div sampleRate)),
              !.dcX1 = [i \in Channels |-> 0],
              !.dcY1 = [i \in Channels |-> 0]]

\* Saturation::reset
SatReset(a) ==
    [a EXCEPT !.dcX1 = [i \in Channels |-> applyNonlinearity(a.type, a.asymmetryOffset)],
              !.dcY1 = [i \in Channels |-> 0]]

\* a process without the bypass at amount 0
SatProcessBlendOnly(a, i, input) ==
    LET driven == MulWide(input, a.driveLinear) + a.asymmetryOffset
        saturated == applyNonlinearity(a.type, driven)
        dcBlocked == saturated - a.dcX1[i] + MulWide(a.dcY1[i], a.dcBlockCoeff)
        blocked == AsymmetryActive(a.asymmetryOffset)
        result == IF blocked THEN dcBlocked ELSE saturated
    IN  [out  |-> MulWide(input, AudioOne - a.amount) + MulWide(result, a.amount),
         dcX1 |-> IF blocked THEN saturated ELSE a.dcX1[i],
         dcY1 |-> IF blocked THEN dcBlocked ELSE a.dcY1[i]]

\* Saturation::process for one channel: [out, dcX1, dcY1]
SatProcess(a, i, input) ==
    IF a.amount = 0 THEN [out |-> input, dcX1 |-> a.dcX1[i], dcY1 |-> a.dcY1[i]]
    ELSE LET driven == MulWide(input, a.driveLinear) + a.asymmetryOffset
             saturated == applyNonlinearity(a.type, driven)
             dcBlocked == saturated - a.dcX1[i] + MulWide(a.dcY1[i], a.dcBlockCoeff)
             blocked == AsymmetryActive(a.asymmetryOffset)
             result == IF blocked THEN dcBlocked ELSE saturated
         IN  [out  |-> MulWide(input, AudioOne - a.amount) + MulWide(result, a.amount),
              dcX1 |-> IF blocked THEN saturated ELSE a.dcX1[i],
              dcY1 |-> IF blocked THEN dcBlocked ELSE a.dcY1[i]]

\* SaturationToneFilter::setTone; tone in tenths of a percent
ToneSetTone(a, tonePercent, sampleRate) ==
    IF Abs(tonePercent) < 10 THEN [a EXCEPT !.tone = tonePercent, !.toneActive = FALSE]
    ELSE LET raw  == IF tonePercent < 0 THEN 1000 + (1000 + tonePercent) * 7
                     ELSE 8000 - tonePercent * 4
             freq == Max(200, Min((sampleRate * 49) \div 100, raw))
             w    == (6283 * freq) \div sampleRate
         IN  [a EXCEPT !.tone = tonePercent, !.toneActive = TRUE,
                       !.lpCoeff = (w * 1000) \div (1000 + w)]

\* SaturationToneFilter::process for one channel: [out, lpState]
ToneProcess(a, i, input) ==
    IF ~a.toneActive THEN [out |-> input, lpState |-> a.lpState[i]]
    ELSE LET lp == a.lpState[i] + MulWide(input - a.lpState[i], a.lpCoeff)
         IN  [out |-> IF a.tone < 0
                      THEN MulWide(input, AudioOne + a.tone) + MulWide(lp, -a.tone)
                      ELSE input - MulWide(lp, a.tone),
              lpState |-> lp]


\* tan, x in thousandths of a radian below pi/2, from x (15 - x^2) / (15 - 6 x^2)
Tan(x) ==
    LET c == Max(0, Min(1550, x))
        q == (c * c) \div 1000
    IN  (c * (15000 - q)) \div Max(1, 15000 - 6 * q)

\* 10^(-3 delaySec / max (rt60, 0.05)), in thousandths, capped at 0.9999;
\* the delay in hundredths of a sample, rt60 in tenths of a second
LoopGain(delay, rt60, sampleRate) ==
    Min(999, ExpNeg((delay * 691) \div (sampleRate * Max(rt60, 1))) \div 1000)

\* crossoverHz = 20000 * (500 / 20000) ^ (hfDamping / 100), hfDamping in
\* tenths of a percent: exp (-3.689 hfDamping / 100)
CrossoverHz(hfDamping) == MulWide(ExpNeg((3689 * hfDamping) \div 1000), 20)

\* AttenuationFilter::setCoefficients: the coefficients that survive the
\* last assignment, [b0, b1, a1Coeff]
AttenSetCoefficients(gL, gH, crossoverHz, sampleRate) ==
    IF gL = gH THEN [b0 |-> gL, b1 |-> 0, a1 |-> 0]
    ELSE LET t  == Tan((3142 * crossoverHz) \div sampleRate)
             hh == Mul(gH, gH)
             lt == MulWide(MulWide(t, t), Mul(gL, gL))
             c  == TruncDiv((hh - lt) * AudioOne, Max(1, hh + lt))
         IN  [b0 |-> TruncDiv((gL + gH) + Mul(gL - gH, c), 2),
              b1 |-> TruncDiv((gL + gH) - Mul(gL - gH, c), 2),
              a1 |-> -c]

\* AttenuationFilter::process for one channel: [out, z1, zOut1]
AttenProcess(a, i, input) ==
    LET output == MulWide(input, a.atten[i].b0) + MulWide(a.z1[i], a.atten[i].b1)
                    - MulWide(a.zOut1[i], a.atten[i].a1)
    IN  [out |-> output, z1 |-> input, zOut1 |-> output]

\* a doubling step that copies the block into all four quadrants
HadamardSignCopied(i, j) == 1

\* the Hadamard sign of row i, column j (0-based): -1 iff i and j share an
\* odd number of 1 bits
HadamardSign(i, j) ==
    IF ((i % 2) * (j % 2) + ((i \div 2) % 2) * ((j \div 2) % 2)
          + ((i \div 4) % 2) * ((j \div 4) % 2)) % 2 = 0
    THEN 1 ELSE -1

\* 1 / sqrt (8)
HadamardNorm == 354

\* sum over j of hadamard[i][j] * x[j]; the norm is applied to the signed sum
hadamard == [i \in Channels |-> [j \in Channels |-> HadamardSign(i - 1, j - 1)]]

HadamardMix(x) ==
    [i \in Channels |->
        MulWide(  hadamard[i][1] * x[1] + hadamard[i][2] * x[2]
                + hadamard[i][3] * x[3] + hadamard[i][4] * x[4]
                + hadamard[i][5] * x[5] + hadamard[i][6] * x[6]
                + hadamard[i][7] * x[7] + hadamard[i][8] * x[8],
                HadamardNorm)]

\* the n LCG states that follow rng
RECURSIVE LcgDraws(_, _)
LcgDraws(rng, n) ==
    IF n <= 0 THEN << >>
    ELSE LET next == LcgNext(rng) IN << next >> \o LcgDraws(next, n - 1)

MatrixSeed == << 4660, 22136 >>      \* 0x12345678

\* FeedbackMatrix constructor: inputSigns[i] from draw 2i+1, outputSigns[i]
\* from draw 2i+2 (i 0-based)
MatrixDraws == LcgDraws(MatrixSeed, 2 * NUM_CHANNELS)

inputSigns == [i \in Channels |-> LcgSign(MatrixDraws[2 * i - 1])]

outputSigns == [i \in Channels |-> LcgSign(MatrixDraws[2 * i])]

\* FeedbackMatrix::process
FeedbackMatrixProcess(x) ==
    LET mixed == HadamardMix([j \in Channels |-> inputSigns[j] * x[j]])
    IN  [i \in Channels |-> outputSigns[i] * mixed[i]]


\* DelayLine::read: Lagrange interpolation over 4 taps; delay in hundredths
\* of a sample
DelayRead(buffer, bufferSize, writePos, delay) ==
    LET raw     == writePos * 100 - delay - 100
        readPos == IF raw < 0 THEN raw % (bufferSize * 100) ELSE raw
        intPart == readPos \div 100
        d1 == readPos % 100
        d0 == d1 + 100
        d2 == d1 - 100
        d3 == d1 - 200
        y0 == buffer[(intPart - 1 + bufferSize) % bufferSize]
        y1 == buffer[intPart % bufferSize]
        y2 == buffer[(intPart + 1) % bufferSize]
        y3 == buffer[(intPart + 2) % bufferSize]
    IN  MulWide(y0, TruncDiv(d1 * d2 * d3, -6000))
        + MulWide(y1, TruncDiv(d0 * d2 * d3, 2000))
        + MulWide(y2, TruncDiv(d0 * d1 * d3, -2000))
        + MulWide(y3, TruncDiv(d0 * d1 * d2, 6000))

NUM_STEPS == 4
Steps == 1..NUM_STEPS
stepDurationsMs == << 5, 10, 20, 40 >>

DiffuserSeed == << 47789, 61453 >>   \* 0xBAADF00D

\* Diffuser::prepare: delaySamples of channel ch in step st (both 1-based);
\* each step draws 8 delays and then 8 polarity flips
DiffuserDraws == LcgDraws(DiffuserSeed, 2 * NUM_CHANNELS * NUM_STEPS)

DiffuserDelay(sampleRate, st, ch) ==
    LET rng == DiffuserDraws[16 * (st - 1) + ch]
        maxDelay == stepDurationsMs[st] * sampleRate
    IN  Max(1, ((maxDelay * (ch - 1)) \div 8 + ((maxDelay \div 8) * rng[2]) \div 65535)
                 \div 1000)

flipSign ==
    [st \in Steps |-> [ch \in Channels |->
        LcgSign(DiffuserDraws[16 * (st - 1) + 8 + ch])]]

\* a shuffle that leaves every channel in place
shuffleOrderPlain == [st \in Steps |-> [ch \in Channels |-> ch]]

shuffleOrder == [st \in Steps |-> [ch \in Channels |-> ((ch - 1 + st) % NUM_CHANNELS) + 1]]

\* the diffuser as prepare leaves it: per step and channel the delay, a
\* zeroed buffer of delay + 1 samples and the write position
DiffuserPrepare(sampleRate) ==
    [delaySamples |-> [st \in Steps |-> [ch \in Channels |-> DiffuserDelay(sampleRate, st, ch)]],
     buffers  |-> [st \in Steps |-> [ch \in Channels |->
                     [k \in 0..DiffuserDelay(sampleRate, st, ch) |-> 0]]],
     writePos |-> [st \in Steps |-> [ch \in Channels |-> 0]]]

\* Diffuser::reset
DiffuserReset(df) ==
    [df EXCEPT !.buffers = [st \in Steps |-> [ch \in Channels |->
                              [k \in 0..df.delaySamples[st][ch] |-> 0]]],
               !.writePos = [st \in Steps |-> [ch \in Channels |-> 0]]]

\* Diffuser::processSample, steps st .. NUM_STEPS: [df, out]
RECURSIVE DiffuserRun(_, _, _)
DiffuserRun(df, st, current) ==
    IF st > NUM_STEPS THEN [df |-> df, out |-> current]
    ELSE LET size(ch) == df.delaySamples[st][ch] + 1
             written == [ch \in Channels |->
                           [df.buffers[st][ch] EXCEPT ![df.writePos[st][ch]] = current[ch]]]
             delayed == [ch \in Channels |->
                           written[ch][(df.writePos[st][ch] - df.delaySamples[st][ch]
                                          + size(ch) * 2) % size(ch)]]
             shuffled == [ch \in Channels |-> flipSign[st][ch] * delayed[shuffleOrder[st][ch]]]
         IN  DiffuserRun([df EXCEPT !.buffers[st] = written,
                                    !.writePos[st] = [ch \in Channels |->
                                        (df.writePos[st][ch] + 1) % size(ch)]],
                         st + 1, HadamardMix(shuffled))


\* the audio side of an FDNReverb as constructed (member initialisers)
FdnAudioNew ==
    [buffers  |-> [i \in Channels |-> << >>],
     writePos |-> [i \in Channels |-> 0],
     atten    |-> [i \in Channels |-> [b0 |-> AudioOne, b1 |-> 0, a1 |-> 0]],
     z1       |-> [i \in Channels |-> 0],
     zOut1    |-> [i \in Channels |-> 0],
     amount   |-> 0, driveLinear |-> AudioOne, type |-> 1, asymmetryOffset |-> 0,
     dcBlockCoeff |-> 995,
     dcX1     |-> [i \in Channels |-> 0],
     dcY1     |-> [i \in Channels |-> 0],
     tone     |-> 0, lpCoeff |-> 100, toneActive |-> FALSE,
     lpState  |-> [i \in Channels |-> 0],
     currentDiffusion  |-> 800,
     bypassSaturation  |-> FALSE,
     bypassToneFilter  |-> FALSE,
     bypassAttenFilter |-> FALSE,
     diffuser |-> [delaySamples |-> << >>, buffers |-> << >>, writePos |-> << >>]]

\* FDNReverb::reset, audio part: delay lines, attenuation filters,
\* saturators, tone filters and the diffuser
FdnResetAudio(a) ==
    LET cleared == [a EXCEPT
            !.buffers  = [i \in Channels |-> [k \in DOMAIN a.buffers[i] |-> 0]],
            !.writePos = [i \in Channels |-> 0],
            !.z1       = [i \in Channels |-> 0],
            !.zOut1    = [i \in Channels |-> 0],
            !.lpState  = [i \in Channels |-> 0],
            !.diffuser = DiffuserReset(a.diffuser)]
    IN  SatReset(cleared)

\* FDNReverb::prepare, audio part; f is the geometry already prepared for
\* the same rate
FdnPrepareAudio(a, f, sampleRate) ==
    LET sized == [a EXCEPT
            !.buffers  = [i \in Channels |-> [k \in 0..(f.bufferSize - 1) |-> 0]],
            !.diffuser = DiffuserPrepare(sampleRate)]
    IN  FdnResetAudio(SatPrepare(sized, sampleRate))

\* FDNReverb::setParameters, audio part; f is the geometry after the same
\* call.  diffusion, satAmount and satTone in tenths of a percent, the
\* RT60s in tenths of a second, satDrive in tenths of a dB, satAsymmetry in
\* units of 0.0001 percent
FdnSetAudio(a, f, p) ==
    LET crossoverHz == CrossoverHz(p.hfDamping)
        filt == [a EXCEPT
            !.atten = [i \in Channels |->
                         AttenSetCoefficients(LoopGain(f.targetDelays[i], p.lowRT60, f.sr),
                                              LoopGain(f.targetDelays[i], p.highRT60, f.sr),
                                              crossoverHz, f.sr)],
            !.currentDiffusion = Max(0, Min(AudioOne, p.diffusion)),
            !.bypassSaturation  = p.bypSaturation,
            !.bypassToneFilter  = p.bypToneFilter,
            !.bypassAttenFilter = p.bypAttenFilter]
    IN  ToneSetTone(SatSetParameters(filt, p.satAmount, p.satDrive, p.satType,
                                     p.satAsymmetry),
                    p.satTone, f.sr)

\* a clamp of the positive side only
SafetyLimitUpper(x) ==
    IF x > 2 * FineOne THEN 2 * TanhFine(TruncDiv(x, 2)) ELSE x

\* step 8 of processSample: soft clamp beyond +-2
SafetyLimit(x) ==
    IF x > 2 * FineOne \/ x < -(2 * FineOne) THEN 2 * TanhFine(TruncDiv(x, 2)) ELSE x

\* sum of squares, in millionths
Energy(x) ==
    LET sq(i) == TruncDiv(x[i], 10000) * TruncDiv(x[i], 10000)
    IN  sq(1) + sq(2) + sq(3) + sq(4) + sq(5) + sq(6) + sq(7) + sq(8)

\* a blend that is not rescaled
FeedbackMixPlain(a, attenuated) ==
    IF a.currentDiffusion < 1 THEN attenuated
    ELSE IF a.currentDiffusion > 999 THEN FeedbackMatrixProcess(attenuated)
    ELSE LET fullMix == FeedbackMatrixProcess(attenuated)
         IN  [i \in Channels |->
                MulWide(attenuated[i], AudioOne - a.currentDiffusion)
                  + MulWide(fullMix[i], a.currentDiffusion)]

\* step 5 of processSample: the feedback mix for currentDiffusion
FeedbackMix(a, attenuated) ==
    IF a.currentDiffusion < 1 THEN attenuated
    ELSE IF a.currentDiffusion > 999 THEN FeedbackMatrixProcess(attenuated)
    ELSE LET fullMix == FeedbackMatrixProcess(attenuated)
             mixed == [i \in Channels |->
                         MulWide(attenuated[i], AudioOne - a.currentDiffusion)
                           + MulWide(fullMix[i], a.currentDiffusion)]
             energyIn  == Energy(attenuated)
             energyOut == Energy(mixed)
         IN  IF energyOut > 0 /\ energyIn > 0
             THEN [i \in Channels |->
                     MulWide(mixed[i], (ISqrt(energyIn) * AudioOne) \div ISqrt(energyOut))]
             ELSE mixed

\* a processSample that taps the outputs from what it has just written
FdnProcessSampleTapWritten(f, a, inputL, inputR) ==
    LET d == DiffuserRun(a.diffuser, 1,
                 [i \in Channels |-> TruncDiv(IF (i - 1) % 2 = 0 THEN inputL ELSE inputR, 2)])
        g == FdnStepGeometry(f)
        delayOutputs == [i \in Channels |->
                           DelayRead(a.buffers[i], f.bufferSize, a.writePos[i], f.lineDelay[i])]
        att == [i \in Channels |->
                  IF a.bypassAttenFilter
                  THEN [out |-> delayOutputs[i], z1 |-> a.z1[i], zOut1 |-> a.zOut1[i]]
                  ELSE AttenProcess(a, i, delayOutputs[i])]
        attenuated == [i \in Channels |-> att[i].out]
        feedback == FeedbackMix(a, attenuated)
        sat == [i \in Channels |->
                  IF a.bypassSaturation
                  THEN [out |-> feedback[i], dcX1 |-> a.dcX1[i], dcY1 |-> a.dcY1[i]]
                  ELSE SatProcess(a, i, feedback[i])]
        tf == [i \in Channels |->
                 IF a.bypassToneFilter
                 THEN [out |-> sat[i].out, lpState |-> a.lpState[i]]
                 ELSE ToneProcess(a, i, sat[i].out)]
        written == [i \in Channels |-> d.out[i] + SafetyLimit(tf[i].out)]
    IN  [f |-> g,
         a |-> [a EXCEPT
                  !.diffuser = d.df,
                  !.z1      = [i \in Channels |-> att[i].z1],
                  !.zOut1   = [i \in Channels |-> att[i].zOut1],
                  !.dcX1    = [i \in Channels |-> sat[i].dcX1],
                  !.dcY1    = [i \in Channels |-> sat[i].dcY1],
                  !.lpState = [i \in Channels |-> tf[i].lpState],
                  !.buffers = [i \in Channels |->
                                 [a.buffers[i] EXCEPT ![a.writePos[i]] =
                                     d.out[i] + SafetyLimit(tf[i].out)]],
                  !.writePos = [i \in Channels |-> (a.writePos[i] + 1) % f.bufferSize]],
         outL |-> killDenormal(TruncDiv(written[1] + written[3] + written[5]
                                          + written[7], 2)),
         outR |-> killDenormal(TruncDiv(written[2] + written[4] + written[6]
                                          + written[8], 2))]

\* FDNReverb::processSample: the geometry f and audio a after the call,
\* and the two outputs
FdnProcessSample(f, a, inputL, inputR) ==
    LET d == DiffuserRun(a.diffuser, 1,
                 [i \in Channels |-> TruncDiv(IF (i - 1) % 2 = 0 THEN inputL ELSE inputR, 2)])
        g == FdnStepGeometry(f)
        delayOutputs == [i \in Channels |->
                           DelayRead(a.buffers[i], f.bufferSize, a.writePos[i], f.lineDelay[i])]
        att == [i \in Channels |->
                  IF a.bypassAttenFilter
                  THEN [out |-> delayOutputs[i], z1 |-> a.z1[i], zOut1 |-> a.zOut1[i]]
                  ELSE AttenProcess(a, i, delayOutputs[i])]
        attenuated == [i \in Channels |-> att[i].out]
        feedback == FeedbackMix(a, attenuated)
        sat == [i \in Channels |->
                  IF a.bypassSaturation
                  THEN [out |-> feedback[i], dcX1 |-> a.dcX1[i], dcY1 |-> a.dcY1[i]]
                  ELSE SatProcess(a, i, feedback[i])]
        tf == [i \in Channels |->
                 IF a.bypassToneFilter
                 THEN [out |-> sat[i].out, lpState |-> a.lpState[i]]
                 ELSE ToneProcess(a, i, sat[i].out)]
    IN  [f |-> g,
         a |-> [a EXCEPT
                  !.diffuser = d.df,
                  !.z1      = [i \in Channels |-> att[i].z1],
                  !.zOut1   = [i \in Channels |-> att[i].zOut1],
                  !.dcX1    = [i \in Channels |-> sat[i].dcX1],
                  !.dcY1    = [i \in Channels |-> sat[i].dcY1],
                  !.lpState = [i \in Channels |-> tf[i].lpState],
                  !.buffers = [i \in Channels |->
                                 [a.buffers[i] EXCEPT ![a.writePos[i]] =
                                     d.out[i] + SafetyLimit(tf[i].out)]],
                  !.writePos = [i \in Channels |-> (a.writePos[i] + 1) % f.bufferSize]],
         outL |-> killDenormal(TruncDiv(attenuated[1] + attenuated[3] + attenuated[5]
                                          + attenuated[7], 2)),
         outR |-> killDenormal(TruncDiv(attenuated[2] + attenuated[4] + attenuated[6]
                                          + attenuated[8], 2))]


\* the parameter sets of the FDN runs: the one of the unit tests, a driven
\* asymmetric saturator with a dark tone filter, a saturator whose
\* asymmetry is 0.0004 percent, and full diffusion with every stage bypassed
FdnDefaults ==
    [roomSize |-> 60, lowRT60 |-> 18, highRT60 |-> 9, hfDamping |-> 650,
     diffusion |-> 800, modDepth |-> 150, modRate |-> 50,
     satAmount |-> 0, satDrive |-> 60, satType |-> 1, satTone |-> 0,
     satAsymmetry |-> 0,
     bypSaturation |-> FALSE, bypToneFilter |-> FALSE, bypAttenFilter |-> FALSE,
     bypModulation |-> FALSE]

FdnSettings ==
    { FdnDefaults,
      [FdnDefaults EXCEPT !.roomSize = 10, !.satAmount = 1000, !.satTone = -500,
                          !.satAsymmetry = 500000],
      [FdnDefaults EXCEPT !.roomSize = 10, !.satAmount = 1000, !.satAsymmetry = 4],
      [FdnDefaults EXCEPT !.roomSize = 10, !.diffusion = 1000, !.satType = 0,
                          !.bypSaturation = TRUE, !.bypToneFilter = TRUE,
                          !.bypAttenFilter = TRUE, !.bypModulation = TRUE] }

FdnInit ==
    /\ fdnAudio = FdnAudioNew
    /\ fdnOut = << >>
    /\ fdnQuiet = -1
    /\ fdnRuns = [prepared |-> FALSE, blocks |-> 0, sets |-> 0, samples |-> 0]

\* fdn.prepare (sampleRate, maxBlockSize)
FdnPrepare(sampleRate) ==
    /\ ~fdnRuns.prepared
    /\ LET f == FdnPrepareGeometry(fdn, sampleRate)
       IN  /\ fdn' = f
           /\ fdnAudio' = FdnPrepareAudio(fdnAudio, f, sampleRate)
    /\ fdnRuns' = [fdnRuns EXCEPT !.prepared = TRUE]
    /\ fdnQuiet' = -1
    /\ UNCHANGED fdnOut

\* fdn.setParameters (...)
FdnConfigure(p) ==
    /\ fdnRuns.prepared
    /\ fdnRuns.sets < FdnMaxSets
    /\ LET f == FdnSetGeometry(fdn, p.roomSize, p.modDepth, p.modRate, p.bypModulation)
       IN  /\ fdn' = f
           /\ fdnAudio' = FdnSetAudio(fdnAudio, f, p)
    /\ fdnRuns' = [fdnRuns EXCEPT !.sets = @ + 1]
    /\ fdnQuiet' = -1
    /\ UNCHANGED fdnOut

\* n calls of processSample on the stream starting at sample t; r is what
\* the call before returned
RECURSIVE FdnProcessRun(_, _, _, _, _, _)
RECURSIVE FdnProcessNext(_, _, _, _, _)
FdnProcessNext(r, kind, t, n, out) ==
    FdnProcessRun(r.f, r.a, kind, t + 1, n - 1, Append(out, << r.outL, r.outR >>))

FdnProcessRun(f, a, kind, t, n, out) ==
    IF n <= 0 THEN [f |-> f, a |-> a, out |-> out]
    ELSE FdnProcessNext(FdnProcessSample(f, a, ToFine(InputSample(kind, t)),
                                         ToFine(InputSample(kind, t + 1))),
                        kind, t, n, out)

\* one block of processSample calls
FdnBlock(kind, numSamples) ==
    /\ fdnRuns.prepared
    /\ fdnRuns.blocks < FdnMaxBlocks
    /\ \E r \in { FdnProcessRun(fdn, fdnAudio, kind, fdnRuns.samples, numSamples, << >>) } :
          /\ fdn' = r.f
          /\ fdnAudio' = r.a
          /\ fdnOut' = r.out
    /\ fdnRuns' = [fdnRuns EXCEPT !.blocks = @ + 1, !.samples = @ + numSamples]
    /\ fdnQuiet' = IF kind = "silence" /\ fdnQuiet >= 0 THEN fdnQuiet + 1 ELSE -1

\* fdn.reset()
FdnReset ==
    /\ fdnRuns.prepared
    /\ fdnQuiet # 0
    /\ fdn' = FdnResetGeometry(fdn)
    /\ fdnAudio' = FdnResetAudio(fdnAudio)
    /\ fdnQuiet' = 0
    /\ UNCHANGED << fdnOut, fdnRuns >>


(***************************************************************************)
(* Two engines side by side.  prepareToPlay gives the left and the right   *)
(* DVN tail their own seeds; the two engines are prepared alike and fed    *)
(* the same parameter snapshots and the same input blocks.                 *)
(*                                                                         *)
(*   twin  a, b the tails (0 left, 1 right) of the two engines, outA and   *)
(*         outB their output blocks, the samples fed so far                *)
(***************************************************************************)
VARIABLES twin

\* samples fed to the two engines
TwinStream == 12

DvnSeedR == << 22136, 61185 >>    \* 0x5678EF01

\* the seed prepareToPlay hands to dvnTail[ch]
TailSeedShared(ch) == DvnSeed

TailSeed(ch) == IF ch = 0 THEN DvnSeed ELSE DvnSeedR

\* dvnTail[0..1] as constructed
TailNew == [ch \in 0..1 |-> DvnNew]

\* the dvnTail loop of prepareToPlay
TailPrepare(tails, sampleRate, blockSize) ==
    [ch \in 0..1 |-> DvnPrepare(tails[ch], sampleRate, blockSize, TailSeed(ch))]

\* the DVN branch of processBlock on both channels
TailProcess(tails, set, input) ==
    [ch \in 0..1 |-> DvnProcess(DvnSetParameters(tails[ch], set[1], set[2]),
                                input, AudioOne)]

\* what generateDVNSequence draws: position, sign and width of every pulse
DvnDrawn(pulses) ==
    [k \in 1..Len(pulses) |-> << pulses[k].position, pulses[k].sign, pulses[k].width >>]

TwinInit ==
    twin = [a |-> TailNew, b |-> TailNew, outA |-> << >>, outB |-> << >>,
            prepared |-> FALSE, samples |-> 0]

\* prepareToPlay on both engines
TwinPrepare(sampleRate, blockSize) ==
    /\ ~twin.prepared
    /\ twin' = [twin EXCEPT !.a = TailPrepare(twin.a, sampleRate, blockSize),
                            !.b = TailPrepare(twin.b, sampleRate, blockSize),
                            !.prepared = TRUE]

\* one block on both engines with the same snapshot and the same input
TwinBlock(set, kind, numSamples) ==
    /\ twin.prepared
    /\ twin.samples + numSamples <= TwinStream
    /\ \E ra \in { TailProcess(twin.a, set, InputBlock(kind, twin.samples, numSamples)) } :
       \E rb \in { TailProcess(twin.b, set, InputBlock(kind, twin.samples, numSamples)) } :
          twin' = [twin EXCEPT !.a = [ch \in 0..1 |-> ra[ch].dvn],
                               !.b = [ch \in 0..1 |-> rb[ch].dvn],
                               !.outA = [ch \in 0..1 |-> ra[ch].out],
                               !.outB = [ch \in 0..1 |-> rb[ch].out],
                               !.samples = @ + numSamples]


(***************************************************************************)
(* The feedback matrix on its own.                                         *)
(*                                                                         *)
(*   mat  the vector handed to FeedbackMatrix::process and the one it      *)
(*        returned, in units of 1e-7                                       *)
(***************************************************************************)
VARIABLES mat

\* largest channel value handed to the matrix, in thousandths
MatPeak == 1000

\* the values a channel takes
MatLevels == { -MatPeak, 0, (MatPeak * 7) \div 10 }

MatInit ==
    mat = [v |-> [i \in Channels |-> 0], x |-> [i \in Channels |-> 0],
           y |-> [i \in Channels |-> 0], calls |-> 0]

\* matrix.process (input, output) on the vector v of thousandths
MatrixApply(v) ==
    mat' = [v |-> v,
            x |-> [i \in Channels |-> ToFine(v[i])],
            y |-> FeedbackMatrixProcess([i \in Channels |-> ToFine(v[i])]),
            calls |-> 1]


(***************************************************************************)
(* One Saturation object on its own, as the unit tests drive it.           *)
(*                                                                         *)
(*   sat  a the object (its DC-blocker registers at index 1), whether it   *)
(*        was prepared, the runs of process calls made, and, when a run    *)
(*        was the last thing done (ran), the input, the last output, the   *)
(*        largest |output|, the                                            *)
(*        object before it and whether the run left it as it was; zeros    *)
(*        counts the process (0) calls made                                *)
(*        since reset () with nothing else in between (-1: not the case)   *)
(*        and zeroPeak is the largest |output| among them                  *)
(***************************************************************************)
VARIABLES sat

SatRate == 4000

\* process calls in a long run
SatRunLength == 100

\* runs of process calls explored
SatRuns == 2

\* a Saturation as constructed
SatNew ==
    [amount |-> 0, driveLinear |-> AudioOne, type |-> 1, asymmetryOffset |-> 0,
     dcBlockCoeff |-> 995,
     dcX1 |-> [i \in Channels |-> 0], dcY1 |-> [i \in Channels |-> 0]]

\* (amount, drive, type, asymmetry) handed to setParameters: amount in
\* tenths of a percent, drive in tenths of a dB, asymmetry in 0.0001 percent
SatSettings ==
    { << 0, 120, 1, 500000 >>, << 0, 240, 3, 1000000 >>,
      << 1000, 240, 1, 0 >>, << 1000, 240, 0, 500000 >>,
      << 1000, 240, 2, 0 >>, << 1000, 240, 3, 500000 >>,
      << 1000, 120, 1, 500000 >>, << 1000, 120, 1, 4 >> }

\* input samples, in thousandths
SatInputs == { -1000, 0, 1000 }

\* nothing was run since the last prepare, setParameters or reset
SatIdle(a, prepared, runs, zeros) ==
    [a |-> a, prepared |-> prepared, runs |-> runs, ran |-> FALSE, in |-> 0,
     out |-> 0, peak |-> 0, before |-> a, untouched |-> TRUE, zeros |-> zeros,
     zeroPeak |-> 0]

SatInit == sat = SatIdle(SatNew, FALSE, 0, -1)

\* sat.prepare (sampleRate)
SatUnitPrepare(sampleRate) ==
    /\ ~sat.prepared
    /\ sat' = SatIdle(SatPrepare(sat.a, sampleRate), TRUE, sat.runs, -1)

\* sat.setParameters (amount, drive, type, asymmetry)
SatUnitSet(s) ==
    /\ sat.prepared
    /\ sat' = SatIdle(SatSetParameters(sat.a, s[1], s[2], s[3], s[4]), TRUE, sat.runs, -1)

\* process calls evaluated in one stretch
SatChunk == 10

\* n <= SatChunk calls of sat.process (x): the outputs and the object after
\* them
RECURSIVE SatRunShort(_, _, _)
SatRunShort(a, x, n) ==
    IF n <= 0 THEN [outs |-> << >>, a |-> a]
    ELSE LET r    == SatProcess(a, 1, ToFine(x))
             rest == SatRunShort([a EXCEPT !.dcX1[1] = r.dcX1, !.dcY1[1] = r.dcY1],
                                 x, n - 1)
         IN  [outs |-> << r.out >> \o rest.outs, a |-> rest.a]

\* n calls of sat.process (x), stretch by stretch
RECURSIVE SatRun(_, _, _)
SatRun(a, x, n) ==
    IF n <= SatChunk THEN SatRunShort(a, x, n)
    ELSE LET first == SatRunShort(a, x, SatChunk)
             rest  == SatRun(first.a, x, n - SatChunk)
         IN  [outs |-> first.outs \o rest.outs, a |-> rest.a]

\* the largest magnitude among outs
Peak(outs) ==
    IF outs = << >> THEN 0
    ELSE CHOOSE m \in { Abs(outs[k]) : k \in DOMAIN outs } :
            \A k \in DOMAIN outs : Abs(outs[k]) <= m

\* for (i < n) sat.process (x)
SatUnitRun(x, n) ==
    /\ sat.prepared
    /\ sat.runs < SatRuns
    /\ \E r \in { SatRun(sat.a, x, n) } : \E peak \in { Peak(r.outs) } :
          sat' = [sat EXCEPT !.a = r.a, !.runs = @ + 1, !.ran = TRUE, !.in = x,
                             !.out = r.outs[n],
                             !.peak = peak, !.before = sat.a, !.untouched = (r.a = sat.a),
                             !.zeros = IF x = 0 /\ @ >= 0 THEN @ + n ELSE -1,
                             !.zeroPeak = IF x = 0 /\ sat.zeros >= 0
                                          THEN Max(@, peak) ELSE 0]

\* sat.reset ()
SatUnitReset ==
    /\ sat.prepared
    /\ sat' = SatIdle(SatReset(sat.a), TRUE, sat.runs, 0)


(***************************************************************************)
(* One ReverbMixer on its own.                                             *)
(*                                                                         *)
(*   mixIO  mx the mixer's gains, in the eight samples handed to process,  *)
(*          out the pair it returned, calls whether process was called     *)
(***************************************************************************)
VARIABLES mixIO

\* largest sample handed to the mixer, in thousandths
MixPeak == 30000

\* the values a layer's sample takes
MixLevels == { -MixPeak, 0, 1500, MixPeak }

\* (dryWet, earlyLevel, lateLevel, stereoWidth) over the parameter ranges:
\* tenths of a percent and tenths of a dB
MixSettings ==
    { << 300, -30, -60, 700 >>, << 0, 60, 60, 1000 >>, << 1000, 60, 60, 1000 >>,
      << 1000, -240, 60, 0 >>, << 500, 60, -240, 1000 >> }

\* the samples of one frame: the right channel is s times the left, the DVN
\* tail carries the late level with the sign t
MixFrame(d, e, l, s, t) ==
    [dryL |-> d, dryR |-> s * d, earlyL |-> e, earlyR |-> s * e,
     lateL |-> l, lateR |-> s * l, dvnL |-> t * l, dvnR |-> t * s * l]

MixUnitInit ==
    mixIO = [mx |-> [wet |-> 300, dry |-> 700, earlyGain |-> 707, lateGain |-> 500,
                     stereoWidth |-> 700],
             in |-> MixFrame(0, 0, 0, 1, 1), out |-> << 0, 0 >>, calls |-> 0]

\* mixer.setParameters
MixUnitSet(p) ==
    mixIO' = [mx |-> MixerSet(p[1], p[2], p[3], p[4]), in |-> MixFrame(0, 0, 0, 1, 1),
              out |-> << 0, 0 >>, calls |-> 0]

\* mixer.process
MixUnitProcess(in) ==
    mixIO' = [mixIO EXCEPT !.in = in, !.out = MixerProcess(mixIO.mx, in), !.calls = 1]


(***************************************************************************)
(* The OversamplingManager on its own: prepare called again and again.     *)
(*                                                                         *)
(*   osmHist  the factors handed to prepare so far, oldest first           *)
(***************************************************************************)
VARIABLES osmHist

\* prepare calls explored
OsmCalls == 5

\* OversamplingManager::getLatencyInSamples: what the JUCE oversampler
\* reports (a positive number of samples, here one per 2x stage) when there
\* is one, else 0
getLatencyInSamples(om) == IF om.oversampler # -1 THEN om.oversampler ELSE 0

OsmUnitInit == osmHist = << >>

\* osm.prepare (2, factor, sampleRate, maxBlockSize)
OsmUnitPrepare(factor) ==
    /\ Len(osmHist) < OsmCalls
    /\ osm' = OsmPrepare(osm, factor)
    /\ osmHist' = Append(osmHist, factor)


(***************************************************************************)
(* The FDN driven like the stability test drives it (prepare, then         *)
(* setParameters, then processSample call after call on inputs within      *)
(* +-1), three times over on a fresh FDNReverb: first a unit impulse on    *)
(* the left input, then a unit impulse on the right input, then the        *)
(* full-scale input whose sign at call t is the sign of the impulse        *)
(* response of outputL at lag ProbeLen - 1 - t.                            *)
(*                                                                         *)
(*   probe  phase "off", "left", "right" or "drive"; the setting p; the    *)
(*          FDN f, a; the calls made in this phase; outputL of the two     *)
(*          impulse runs; the largest |output| of any call so far          *)
(***************************************************************************)
VARIABLES probe

\* processSample calls per run, and per step of a run
ProbeLen == 800
ProbeBlock == 10

\* roomSize 1.0, both RT60s 3 s, full diffusion, no modulation depth, the
\* saturator at amount 0, no stage bypassed
ProbeSettings ==
    { [FdnDefaults EXCEPT !.roomSize = 100, !.lowRT60 = 30, !.highRT60 = 30,
                          !.diffusion = 1000, !.modDepth = 0] }

Sign(x) == IF x > 0 THEN 1 ELSE IF x < 0 THEN -1 ELSE 0

\* a new FDNReverb after prepare (sampleRate, 512) and setParameters (p)
ProbeFresh(p, sampleRate) ==
    LET f0 == FdnPrepareGeometry(FdnNew, sampleRate)
        a0 == FdnPrepareAudio(FdnAudioNew, f0, sampleRate)
        f1 == FdnSetGeometry(f0, p.roomSize, p.modDepth, p.modRate, p.bypModulation)
    IN  [f |-> f1, a |-> FdnSetAudio(a0, f1, p)]

\* the input pair of call t of a run
ProbeInput(pr, t) ==
    IF pr.phase = "left" THEN << IF t = 0 THEN FineOne ELSE 0, 0 >>
    ELSE IF pr.phase = "right" THEN << 0, IF t = 0 THEN FineOne ELSE 0 >>
    ELSE << Sign(pr.hL[ProbeLen - t]) * FineOne, Sign(pr.hR[ProbeLen - t]) * FineOne >>

\* n calls of processSample from call t on: the FDN afterwards and the
\* output pairs
RECURSIVE ProbeRun(_, _, _, _, _, _)
RECURSIVE ProbeRunNext(_, _, _, _, _)
ProbeRunNext(r, pr, t, n, outs) ==
    ProbeRun(r.f, r.a, pr, t + 1, n - 1, Append(outs, << r.outL, r.outR >>))

ProbeRun(f, a, pr, t, n, outs) ==
    IF n <= 0 THEN [f |-> f, a |-> a, outs |-> outs]
    ELSE ProbeRunNext(FdnProcessSample(f, a, ProbeInput(pr, t)[1], ProbeInput(pr, t)[2]),
                      pr, t, n, outs)

RECURSIVE PairPeak(_)
PairPeak(outs) ==
    IF outs = << >> THEN 0
    ELSE Max(Max(Abs(outs[1][1]), Abs(outs[1][2])), PairPeak(Tail(outs)))

ProbeInit ==
    probe = [phase |-> "off", p |-> FdnDefaults, f |-> FdnNew, a |-> FdnAudioNew,
             t |-> 0, hL |-> << >>, hR |-> << >>, peak |-> 0]

\* a new FDNReverb; prepare, setParameters
ProbeArm(p) ==
    /\ probe.phase = "off"
    /\ \E n \in { ProbeFresh(p, FdnRate) } :
          probe' = [probe EXCEPT !.phase = "left", !.p = p, !.f = n.f, !.a = n.a]

\* the next calls of the run
ProbeStep ==
    /\ probe.phase # "off"
    /\ probe.t < ProbeLen
    /\ \E r \in { ProbeRun(probe.f, probe.a, probe, probe.t,
                           Min(ProbeBlock, ProbeLen - probe.t), << >>) } :
          probe' = [probe EXCEPT
                      !.f = r.f, !.a = r.a,
                      !.t = @ + Len(r.outs),
                      !.hL = IF probe.phase = "left"
                             THEN @ \o [k \in 1..Len(r.outs) |-> r.outs[k][1]] ELSE @,
                      !.hR = IF probe.phase = "right"
                             THEN @ \o [k \in 1..Len(r.outs) |-> r.outs[k][1]] ELSE @,
                      !.peak = Max(@, PairPeak(r.outs))]

\* the run is over: the next one starts on a new FDNReverb
ProbeTurn ==
    /\ probe.phase \in { "left", "right" }
    /\ probe.t = ProbeLen
    /\ \E n \in { ProbeFresh(probe.p, FdnRate) } :
          probe' = [probe EXCEPT
                      !.phase = IF probe.phase = "left" THEN "right" ELSE "drive",
                      !.f = n.f, !.a = n.a, !.t = 0]


(***************************************************************************)
(* Units driven on their own, call by call.                                *)
(*                                                                         *)
(*   bench  one record per unit:                                           *)
(*     shelf  an AttenuationFilter: the gains and the hfDamping last       *)
(*            handed to setCoefficients, and the coefficients it left      *)
(*     blend  the diffusion blend of FDNReverb::processSample              *)
(*     line   a DelayLine                                                  *)
(*     limit  the safety limiter and the delay-line write of one channel   *)
(*     filt   an AttenuationFilter processing samples                      *)
(*     blk    processBlock load by load, beside the host's stores          *)
(*     dif    a Diffuser and the samples its steps have written            *)
(*     pul    the pulse loop of a velvet-noise generator                   *)
(*     hush   a newly prepared and configured FDNReverb fed silence        *)
(*     again  a DarkVelvetNoise tail prepared a second time                *)
(***************************************************************************)
VARIABLES bench

\* the sample rate of the shelf runs
ShelfRate == 44100

\* loop gains in thousandths, within (0, 0.9999]
ShelfGains == { 300, 500, 900, 980, 990, 999 }

\* hfDamping in tenths of a percent
ShelfDampings == { 0, 300, 650, 1000 }

ShelfNew ==
    [set |-> FALSE, gL |-> AudioOne, gH |-> AudioOne, hfDamping |-> 0,
     coef |-> [b0 |-> AudioOne, b1 |-> 0, a1 |-> 0]]


\* attenuationFilters[i].setCoefficients (gLow, gHigh, crossoverHz, sr) with
\* the crossover FDNReverb::setParameters computes from hfDamping
ShelfSet(gL, gH, hfDamping) ==
    bench' = [bench EXCEPT !.shelf =
                [set |-> TRUE, gL |-> gL, gH |-> gH, hfDamping |-> hfDamping,
                 coef |-> AttenSetCoefficients(gL, gH, CrossoverHz(hfDamping), ShelfRate)]]


\* the diffusion blend of step 5 of processSample on its own: blend holds
\* the diffusion (tenths of a percent), the attenuated vector x handed in
\* (levels v in thousandths) and the feedback vector y that came out
BlendDiffusions == { 0, 500, 800, AudioOne }

\* channels that carry signal at a time in the blend runs
BlendActive == 4

BlendNew ==
    [d |-> 800, v |-> [i \in Channels |-> 0], x |-> [i \in Channels |-> 0],
     y |-> [i \in Channels |-> 0], calls |-> 0]

\* step 5 on the vector v with currentDiffusion d
BlendApply(d, v) ==
    bench' = [bench EXCEPT !.blend =
                [d |-> d, v |-> v,
                 x |-> [i \in Channels |-> ToFine(v[i])],
                 y |-> FeedbackMix([currentDiffusion |-> d],
                                   [i \in Channels |-> ToFine(v[i])]),
                 calls |-> 1]]


\* one DelayLine on its own: line holds the buffer, the write position, the
\* delay last set (hundredths of a sample), the number of writes so far
\* and, after a read, what it returned
LineMaxDelay == 6
LineMaxWrites == 5

\* the samples written and the delays requested: inside the range, beyond
\* the buffer and negative
LineLevels == { -AudioOne, AudioOne \div 2 }

LineDelays == { -300, 0, 250, 100 * LineMaxDelay, 100 * LineMaxDelay + 400,
                200 * LineMaxDelay + 50, 1000 * LineMaxDelay }

\* DelayLine::prepare (maxDelaySamples)
LineNew ==
    [bufferSize |-> DelayLinePrepare(LineMaxDelay),
     buffer |-> [k \in 0..(DelayLinePrepare(LineMaxDelay) - 1) |-> 0],
     writePos |-> 0, currentDelay |-> 0, writes |-> 0, read |-> FALSE, out |-> 0]

\* DelayLine::write
LineWrite(sample) ==
    /\ bench.line.writes < LineMaxWrites
    /\ bench' = [bench EXCEPT !.line =
                   [@ EXCEPT !.buffer[bench.line.writePos] = sample,
                             !.writePos = (@ + 1) % bench.line.bufferSize,
                             !.writes = @ + 1,
                             !.read = FALSE]]

\* DelayLine::setDelay
LineSetDelay(delaySamples) ==
    bench' = [bench EXCEPT !.line = [@ EXCEPT !.currentDelay = delaySamples,
                                              !.read = FALSE]]

\* DelayLine::read
LineRead ==
    bench' = [bench EXCEPT !.line =
                [@ EXCEPT !.read = TRUE,
                          !.out = DelayRead(bench.line.buffer, bench.line.bufferSize,
                                            bench.line.writePos,
                                            bench.line.currentDelay)]]

\* the four buffer indices DelayLine::read uses
ReadTaps(bufferSize, writePos, delay) ==
    LET raw     == writePos * 100 - delay - 100
        readPos == IF raw < 0 THEN raw % (bufferSize * 100) ELSE raw
        intPart == readPos \div 100
    IN  { (intPart - 1 + bufferSize) % bufferSize, intPart % bufferSize,
          (intPart + 1) % bufferSize, (intPart + 2) % bufferSize }


\* steps 8 and 9 of processSample for one channel on their own: limit holds
\* the tone filter's output, the diffused input, the value after the clamp
\* and the sample written to the delay line
LimitSpan == 80

\* processed values from -10 to 10 in steps of 1/8, and far beyond
LimitLevels ==
    { k * (FineOne \div 8) : k \in -LimitSpan..LimitSpan } \cup { -200 * FineOne, 200 * FineOne }

LimitDiffused == { -3 * FineOne, 0, FineOne \div 2 }

LimitNew == [processed |-> 0, diffused |-> 0, clamped |-> 0, written |-> 0, calls |-> 0]

\* the safety limiter, then delayLines[i].write (diffused[i] + processed[i])
LimitWrite(diffused, processed) ==
    bench' = [bench EXCEPT !.limit =
                [processed |-> processed, diffused |-> diffused,
                 clamped |-> SafetyLimit(processed),
                 written |-> diffused + SafetyLimit(processed),
                 calls |-> 1]]


\* one AttenuationFilter driven sample by sample: filt holds its
\* coefficients and registers, the coefficients it had before the last
\* setCoefficients, the last input and output, and the number of samples
\* processed since the last setCoefficients
FiltGains == { 500, 900, 990 }

FiltDampings == { 0, 650 }

FiltInputs == { -FineOne, FineOne \div 2 }

FiltRun == 3

FiltSets == 2

FiltNew ==
    [coef |-> [b0 |-> AudioOne, b1 |-> 0, a1 |-> 0], z1 |-> 0, zOut1 |-> 0,
     before |-> [b0 |-> AudioOne, b1 |-> 0, a1 |-> 0],
     x |-> 0, y |-> 0, held |-> [z1 |-> 0, zOut1 |-> 0], since |-> 0, sets |-> 0,
     calls |-> 0]

\* AttenuationFilter::setCoefficients: the members are assigned at once and
\* the registers are left alone
FiltSet(gL, gH, hfDamping) ==
    bench' = [bench EXCEPT !.filt =
                [bench.filt EXCEPT
                   !.coef = AttenSetCoefficients(gL, gH, CrossoverHz(hfDamping), ShelfRate),
                   !.before = bench.filt.coef,
                   !.since = 0,
                   !.sets = bench.filt.sets + 1]]

\* AttenuationFilter::process on one sample
FiltProcess(input) ==
    LET r == AttenProcess([atten |-> << bench.filt.coef >>, z1 |-> << bench.filt.z1 >>,
                           zOut1 |-> << bench.filt.zOut1 >>], 1, input)
    IN  bench' = [bench EXCEPT !.filt =
                    [bench.filt EXCEPT
                       !.x = input, !.y = r.out,
                       !.held = [z1 |-> bench.filt.z1, zOut1 |-> bench.filt.zOut1],
                       !.z1 = r.z1, !.zOut1 = r.zOut1,
                       !.since = bench.filt.since + 1,
                       !.calls = bench.filt.calls + 1]]

\* AttenuationFilter::reset: the two registers are zeroed
FiltReset ==
    bench' = [bench EXCEPT !.filt =
                [bench.filt EXCEPT !.z1 = 0, !.zOut1 = 0,
                                   !.held = [z1 |-> 0, zOut1 |-> 0]]]


\* processBlock as the audio thread runs it, one atomic load or one use of
\* the oversampling factor per step, with the host storing into the cells
\* in between.  blk holds the cells, the position pc in processBlock
\* (0: not inside), the local osFactor, lastOversamplingFactor, the number of
\* loads of each cell in the current call, the value each load returned, and
\* the factor that was compared, re-prepared with and recorded.

\* the cells in the order processBlock loads them: line 162, updateParameters
\* (lines 125-144), lines 174-180, line 240
BlockLoads ==
    << "oversampling",
       "dryWet", "preDelay", "earlyLevel", "lateLevel", "roomSize", "stereoWidth",
       "lowRT60", "highRT60", "hfDamping", "diffusion", "decayShape",
       "satAmount", "satDrive", "satTone", "satAsymmetry", "modDepth", "modRate",
       "bypassEarly", "bypassFDN", "bypassDVN", "bypassSaturation",
       "bypassToneFilter", "bypassAttenFilter", "bypassModulation",
       "satType" >>

BlockCells == { BlockLoads[k] : k \in 1..Len(BlockLoads) }

\* the cells the host stores into, and the values it stores
BlkHostCells == { "oversampling", "dryWet", "bypassFDN", "satType" }

BlkValues(c) == IF c = "oversampling" THEN 0..2 ELSE 0..1

BlkWrites == 3

BlkBlocks == 2

\* positions: 1 the load of the factor, 2 the comparison, 3 the re-prepare,
\* 4 the recording, then one position per remaining load
BlkAt == [compare |-> 2, prepare |-> 3, record |-> 4]

BlkEnd == Len(BlockLoads) + BlkAt.record

BlkNew ==
    [cells |-> [c \in BlockCells |-> 0], pc |-> 0, osFactor |-> 0,
     lastOversamplingFactor |-> 0,
     loads |-> [c \in BlockCells |-> 0], seen |-> [c \in BlockCells |-> 0],
     compared |-> -1, prepared |-> -1, recorded |-> -1,
     changed |-> FALSE, writes |-> 0, blocks |-> 0]

\* cell->load()
BlkLoad(b, c) ==
    [b EXCEPT !.loads[c] = b.loads[c] + 1, !.seen[c] = b.cells[c]]

\* a recording that loads the cell again instead of using osFactor
BlkRecordReloaded(b) ==
    [b EXCEPT !.lastOversamplingFactor = b.cells["oversampling"],
              !.recorded = b.cells["oversampling"]]

\* lastOversamplingFactor = osFactor
BlkRecordFactor(b) ==
    [b EXCEPT !.lastOversamplingFactor = b.osFactor, !.recorded = b.osFactor]

\* the step of processBlock at position b.pc
BlkStep(b) ==
    IF b.pc = 1
    THEN LET l == BlkLoad(b, "oversampling")
         IN  [l EXCEPT !.osFactor = l.seen["oversampling"], !.pc = BlkAt.compare]
    ELSE IF b.pc = BlkAt.compare
    THEN [b EXCEPT !.compared = b.osFactor,
                   !.changed = (b.osFactor # b.lastOversamplingFactor),
                   !.pc = IF b.osFactor # b.lastOversamplingFactor
                          THEN BlkAt.prepare ELSE BlkAt.record + 1]
    ELSE IF b.pc = BlkAt.prepare
    THEN [b EXCEPT !.prepared = b.osFactor, !.pc = BlkAt.record]
    ELSE IF b.pc = BlkAt.record
    THEN [BlkRecordFactor(b) EXCEPT !.pc = BlkAt.record + 1]
    ELSE LET c == BlockLoads[b.pc - BlkAt.record + 1]
         IN  IF c = "satType" /\ b.seen["bypassFDN"] = 1
             THEN [b EXCEPT !.pc = BlkEnd]
             ELSE [BlkLoad(b, c) EXCEPT !.pc = b.pc + 1]

\* processBlock is entered
BlkEnter ==
    /\ bench.blk.pc = 0
    /\ bench.blk.blocks < BlkBlocks
    /\ bench' = [bench EXCEPT !.blk =
                   [bench.blk EXCEPT !.pc = 1, !.blocks = bench.blk.blocks + 1,
                                     !.loads = [c \in BlockCells |-> 0],
                                     !.compared = -1, !.prepared = -1,
                                     !.recorded = -1, !.changed = FALSE]]

\* the audio thread takes its next step
BlkAdvance ==
    /\ bench.blk.pc \in 1..(BlkEnd - 1)
    /\ bench' = [bench EXCEPT !.blk = BlkStep(bench.blk)]

\* processBlock returns
BlkReturn ==
    /\ bench.blk.pc = BlkEnd
    /\ bench' = [bench EXCEPT !.blk.pc = 0]

\* the message thread stores into a cell, at any point
BlkHostWrite(c, v) ==
    /\ bench.blk.writes < BlkWrites
    /\ v # bench.blk.cells[c]
    /\ bench' = [bench EXCEPT !.blk.cells[c] = v,
                              !.blk.writes = bench.blk.writes + 1]


\* a Diffuser driven call by call: dif holds the diffuser, the drive chosen
\* for the run, the number of calls, the last output, and for every step and
\* channel the samples written into the step's delay so far, one per call
DifRate == 400

DifCalls == 20

DifLevels == { -FineOne, FineOne \div 2 }

\* the input of call t (1-based): an impulse or a held level on channel
\* drive.ch, and an eighth of it, inverted, on the channel before it
DifInput(drive, t) ==
    [ch \in Channels |->
        IF t > 1 /\ ~drive.held THEN 0
        ELSE IF ch = drive.ch THEN drive.level
        ELSE IF ch % NUM_CHANNELS = (drive.ch - 1) % NUM_CHANNELS THEN -(drive.level \div 8)
        ELSE 0]

DifNew ==
    [df |-> DiffuserPrepare(DifRate), drive |-> [ch |-> 1, level |-> 0, held |-> FALSE],
     calls |-> 0, out |-> [ch \in Channels |-> 0],
     hist |-> [st \in Steps |-> [ch \in Channels |-> << >>]]]

\* Diffuser::prepare, then the drive of the run is chosen
DifArm(c, level, held) ==
    /\ bench.dif.calls \in { 0, DifCalls }
    /\ bench' = [bench EXCEPT !.dif =
                   [DifNew EXCEPT !.drive = [ch |-> c, level |-> level, held |-> held]]]

\* one call of Diffuser::processSample; the sample each step wrote is the
\* one found at the step's write position of before the call
DifProcess ==
    /\ bench.dif.drive.level # 0
    /\ bench.dif.calls < DifCalls
    /\ \E r \in { DiffuserRun(bench.dif.df, 1, DifInput(bench.dif.drive, bench.dif.calls + 1)) } :
         bench' = [bench EXCEPT !.dif =
                     [bench.dif EXCEPT
                        !.df = r.df, !.out = r.out,
                        !.calls = bench.dif.calls + 1,
                        !.hist = [st \in Steps |-> [ch \in Channels |->
                                    Append(bench.dif.hist[st][ch],
                                           r.df.buffers[st][ch][bench.dif.df.writePos[st][ch]])]]]]


\* the pulse loops of VelvetNoise::generate and generateDVNSequence, one
\* iteration per step: pul holds the generator kind, sample rate and seed of
\* the run, the loop's gridSize, length and numPulses, the loop counter m, the
\* LCG state, the number of pulses pushed, the pulse pushed last, the
\* position of the one before it, and the LCG values the last iteration drew
PulRates == { 1000, 44100, 96000 }

PulSeeds ==
    { VnSeed, << 51966, 47806 >>, DvnSeed, DvnSeedR, << 0, 0 >>, << 65535, 65535 >> }

PulNew ==
    [kind |-> "none", sr |-> 0, seed |-> << 0, 0 >>, gridSize |-> 1, length |-> 0,
     numPulses |-> 0, m |-> 0, rng |-> << 0, 0 >>, count |-> 0,
     last |-> [position |-> -1, sign |-> 1, width |-> 1], before |-> -1,
     drawn |-> << >>]

\* VelvetNoise::generate, up to the loop (lines 45-53)
PulGenerateOvn(sampleRate, seed) ==
    bench' = [bench EXCEPT !.pul =
                [PulNew EXCEPT
                   !.kind = "ovn", !.sr = sampleRate, !.seed = seed, !.rng = seed,
                   !.gridSize = VnGridSize(sampleRate),
                   !.length = VnSequenceLength(sampleRate),
                   !.numPulses = VnSequenceLength(sampleRate) \div VnGridSize(sampleRate)]]

\* generateDVNSequence, up to the loop (lines 107-117)
PulGenerateDvn(sampleRate, seed) ==
    bench' = [bench EXCEPT !.pul =
                [PulNew EXCEPT
                   !.kind = "dvn", !.sr = sampleRate, !.seed = seed, !.rng = seed,
                   !.gridSize = Max(1, sampleRate \div DvnDensity),
                   !.length = sampleRate * DvnTailSeconds,
                   !.numPulses = Min((sampleRate * DvnTailSeconds)
                                       \div Max(1, sampleRate \div DvnDensity),
                                     DvnPulseCap)]]

\* one iteration of the loop: iteration m of the generator's pulse loop
PulIterate ==
    LET p == bench.pul
        n == IF p.kind = "ovn" THEN 2 ELSE 3
    IN  /\ p.kind # "none"
        /\ p.m < p.numPulses
        /\ \E draws \in { LcgDraws(p.rng, n) } :
           \E pushed \in { IF p.kind = "ovn"
                           THEN VnPulsesFrom(p.m, p.m + 1, p.rng, p.gridSize, p.length)
                           ELSE DvnPulsesFrom(p.m, p.m + 1, p.rng, p.gridSize, p.length) } :
             bench' = [bench EXCEPT !.pul =
                         [p EXCEPT
                            !.m = p.m + 1, !.rng = draws[n], !.drawn = draws,
                            !.count = p.count + Len(pushed),
                            !.before = IF pushed = << >> THEN p.before ELSE p.last.position,
                            !.last = IF pushed = << >> THEN p.last
                                     ELSE [position |-> pushed[1].position,
                                           sign |-> pushed[1].sign,
                                           width |-> IF p.kind = "ovn" THEN 1
                                                     ELSE pushed[1].width]]]


\* a new FDNReverb after prepare and its first setParameters, fed silence:
\* hush holds the engine, the snapshot, the calls made and the largest
\* output magnitude so far
HushRates == { 1000, 4000 }

HushBlock == 2

HushLen == 40

HushNew ==
    [armed |-> FALSE, p |-> FdnDefaults, sr |-> 0, f |-> FdnNew, a |-> FdnAudioNew,
     t |-> 0, peak |-> 0]

\* FDNReverb(); prepare (sampleRate, 512); setParameters (p)
HushArm(p, sampleRate) ==
    /\ bench.hush.t \in { 0, HushLen }
    /\ \E n \in { ProbeFresh(p, sampleRate) } :
          bench' = [bench EXCEPT !.hush =
                      [armed |-> TRUE, p |-> p, sr |-> sampleRate, f |-> n.f, a |-> n.a,
                       t |-> 0, peak |-> 0]]

\* the next processSample (0, 0, outL, outR) calls
HushStep ==
    /\ bench.hush.armed
    /\ bench.hush.t < HushLen
    /\ \E r \in { FdnProcessRun(bench.hush.f, bench.hush.a, "silence", bench.hush.t,
                                Min(HushBlock, HushLen - bench.hush.t), << >>) } :
          bench' = [bench EXCEPT !.hush =
                      [bench.hush EXCEPT
                         !.f = r.f, !.a = r.a,
                         !.t = bench.hush.t + Len(r.out),
                         !.peak = Max(bench.hush.peak, PairPeak(r.out))]]


\* a DarkVelvetNoise tail prepared, fed, and prepared again with the same
\* sample rate and block size: again holds the tail, the number of prepare
\* calls, the samples fed, whether every block since the last prepare was
\* silence, and the last output block
AgainStream == 28

AgainPrepares == 2

AgainNew ==
    [d |-> DvnNew, prepares |-> 0, fed |-> 0, quiet |-> TRUE, out |-> << >>]

\* dvnTail[0].prepare (sampleRate, samplesPerBlock, 0xABCD1234u)
AgainPrepare ==
    /\ bench.again.prepares < AgainPrepares
    /\ bench' = [bench EXCEPT !.again =
                   [bench.again EXCEPT
                      !.d = DvnPrepare(bench.again.d, DvnRate, DvnMaxBlock, DvnSeed),
                      !.prepares = bench.again.prepares + 1,
                      !.quiet = TRUE, !.out = << >>]]

\* the DVN branch of processBlock on one channel: setParameters, process
AgainBlock(kind, numSamples) ==
    /\ bench.again.prepares > 0
    /\ bench.again.fed + numSamples <= AgainStream
    /\ \E r \in { DvnProcess(DvnSetParameters(bench.again.d, 400, 18),
                             InputBlock(kind, bench.again.fed, numSamples), AudioOne) } :
          bench' = [bench EXCEPT !.again =
                      [bench.again EXCEPT
                         !.d = r.dvn, !.out = r.out,
                         !.fed = bench.again.fed + numSamples,
                         !.quiet = bench.again.quiet /\ kind = "silence"]]


BenchInit ==
    bench = [shelf |-> ShelfNew, blend |-> BlendNew, line |-> LineNew, limit |-> LimitNew,
             filt |-> FiltNew, blk |-> BlkNew,
             dif |-> DifNew, pul |-> PulNew,
             hush |-> HushNew, again |-> AgainNew]


(***************************************************************************)
(* Specifications.                                                         *)
(***************************************************************************)
vars == << param, smooth, proc, osm, fdn, dvnArgs, obs,
           vn, vnOut, vnHist, vnQuiet,
           dvn, dvnSet, dvnOut, dvnHist, dvnWrites,
           fdnAudio, fdnOut, fdnQuiet, fdnRuns,
           twin, mat, sat, mixIO, osmHist, probe, bench >>

\* the variables of the single-unit harnesses
labVars == << twin, mat, sat, mixIO, osmHist, probe, bench >>

\* the unit harnesses that have a variable of their own
unitVars == << twin, mat, sat, mixIO, osmHist, probe >>

\* the variables of the four engine groups
coreVars == << engineVars, vnVars, dvnVars, fdnVars >>

Init == ProcessorInit /\ VnInit /\ DvnInit /\ FdnInit /\ TwinInit /\ ProbeInit /\ MatInit /\ SatInit /\ MixUnitInit
        /\ OsmUnitInit /\ BenchInit

\* what the layers put out for a block of programme material
Loud == [dry |-> 500, early |-> 400, late |-> 300, dvn |-> 200]

\* the processor with a host that selects the oversampling factor, the room
\* size and the FDN bypass
OsParams == { "oversampling", "roomSize", "bypassFDN" }

Next ==
    /\ \/ PrepareToPlay(BaseRate, MaxBlock)
       \/ \E n \in OsParams : \E v \in ParamValues[n] : HostWrite(n, v)
       \/ \E N \in { 1, MaxBlock } : ProcessBlock(N, 2, Loud, MaxBlocks)
    /\ UNCHANGED << vnVars, dvnVars, fdnVars, labVars >>

Spec == Init /\ [][Next]_vars

\* the processor with a host that moves the tail parameters
TailParams == { "decayShape", "lowRT60", "bypassFDN" }

\* blocks explored after prepareToPlay
TailBlocks == 5

NextTail ==
    /\ \/ PrepareToPlay(BaseRate, MaxBlock)
       \/ \E n \in TailParams : \E v \in ParamValues[n] : HostWrite(n, v)
       \/ \E N \in { 1, MaxBlock } : ProcessBlock(N, 2, Loud, TailBlocks)
    /\ UNCHANGED << vnVars, dvnVars, fdnVars, labVars >>

SpecTail == Init /\ [][NextTail]_vars

\* the processor with a host that moves the pre-delay and the mix, on mono
\* and stereo buffers
MixParams == { "preDelay", "dryWet", "bypassFDN" }

\* blocks explored after prepareToPlay
MixBlocks == 3

NextMix ==
    /\ \/ PrepareToPlay(BaseRate, MaxBlock)
       \/ \E n \in MixParams : \E v \in ParamValues[n] : HostWrite(n, v)
       \/ \E N \in { 1, MaxBlock } : \E ch \in { 1, 2 } : ProcessBlock(N, ch, Loud, MixBlocks)
    /\ UNCHANGED << vnVars, dvnVars, fdnVars, labVars >>

SpecMix == Init /\ [][NextMix]_vars

\* the processor fed silence while the wet layers still ring, at any level
SilenceParams == { "dryWet", "lateLevel" }

Ringing == { [dry |-> 0, early |-> 0, late |-> 0, dvn |-> 0],
             [dry |-> 0, early |-> 900, late |-> 30000, dvn |-> -30000] }

\* blocks explored after prepareToPlay
SilenceMaxBlocks == 22

NextSilence ==
    /\ \/ PrepareToPlay(BaseRate, MaxBlock)
       \/ \E n \in SilenceParams : \E v \in ParamValues[n] : HostWrite(n, v)
       \/ \E sig \in Ringing : ProcessBlock(MaxBlock, 2, sig, SilenceMaxBlocks)
    /\ UNCHANGED << vnVars, dvnVars, fdnVars, labVars >>

SpecSilence == Init /\ [][NextSilence]_vars

\* scenario S2: the processor fed unit-amplitude noise, block after block,
\* with a host that sets the mix and the width; the wet layers put out what
\* they put out for programme material
S2Params == { "dryWet", "stereoWidth" }

NoiseLevels == { -AudioOne, AudioOne \div 2, AudioOne }

Noise == { [Loud EXCEPT !.dry = d] : d \in NoiseLevels }

\* blocks of the scenario
S2Blocks == 10

NextS2 ==
    /\ \/ PrepareToPlay(BaseRate, MaxBlock)
       \/ \E n \in S2Params : \E v \in ParamValues[n] : HostWrite(n, v)
       \/ \E sig \in Noise : ProcessBlock(MaxBlock, 2, sig, S2Blocks)
    /\ UNCHANGED << vnVars, dvnVars, fdnVars, labVars >>

SpecS2 == Init /\ [][NextS2]_vars

\* the early-reflection convolver on its own
NextVN ==
    /\ \/ \E kind \in VnInputs : \E N \in { VnMaxBlock \div 2, VnMaxBlock } :
             ErProcess(kind, N)
       \/ ErReset
    /\ UNCHANGED << engineVars, dvnVars, fdnVars, labVars >>

SpecVN == Init /\ [][NextVN]_vars

\* the DVN tail on its own
NextDVN ==
    /\ \/ \E p \in DvnSettings : DvnHostSet(p[1], p[2])
       \/ \E N \in { DvnMaxBlock - 1, DvnMaxBlock } : DvnBlock("signal", N)
    /\ UNCHANGED << engineVars, vnVars, fdnVars, labVars >>

SpecDVN == Init /\ [][NextDVN]_vars

\* the FDN on its own
NextFDN ==
    /\ \/ FdnPrepare(FdnRate)
       \/ \E p \in FdnSettings : FdnConfigure(p)
       \/ \E kind \in VnInputs : FdnBlock(kind, FdnBlockLen)
       \/ FdnReset
    /\ UNCHANGED << param, smooth, proc, osm, dvnArgs, obs, vnVars, dvnVars, labVars >>

SpecFDN == Init /\ [][NextFDN]_vars

\* the FDN on its own at a rate low enough for the input to pass the
\* diffuser and the delay lines within the blocks explored
TapRate == 1000

NextTap ==
    /\ \/ FdnPrepare(TapRate)
       \/ \E p \in FdnSettings : FdnConfigure(p)
       \/ \E kind \in VnInputs : FdnBlock(kind, FdnBlockLen)
       \/ FdnReset
    /\ UNCHANGED << param, smooth, proc, osm, dvnArgs, obs, vnVars, dvnVars, labVars >>

SpecTap == Init /\ [][NextTap]_vars

\* two engines prepared alike and fed alike
NextTwin ==
    /\ \/ TwinPrepare(DvnRate, DvnMaxBlock)
       \/ \E p \in DvnSettings : \E kind \in VnInputs :
             \E N \in { DvnMaxBlock - 1, DvnMaxBlock } : TwinBlock(p, kind, N)
    /\ UNCHANGED << coreVars, mat, sat, mixIO, osmHist, probe, bench >>

SpecTwin == Init /\ [][NextTwin]_vars

\* the feedback matrix handed every vector over MatLevels, one channel
\* changing from call to call
NextMatrix ==
    /\ \E i \in Channels : \E level \in MatLevels :
          MatrixApply([mat.v EXCEPT ![i] = level])
    /\ UNCHANGED << coreVars, twin, sat, mixIO, osmHist, probe, bench >>

SpecMatrix == Init /\ [][NextMatrix]_vars

\* one Saturation object prepared, set, run and reset
NextSat ==
    /\ \/ SatUnitPrepare(SatRate)
       \/ \E s \in SatSettings : SatUnitSet(s)
       \/ \E x \in SatInputs : \E n \in { 1, SatRunLength } : SatUnitRun(x, n)
       \/ SatUnitReset
    /\ UNCHANGED << coreVars, twin, mat, mixIO, osmHist, probe, bench >>

SpecSat == Init /\ [][NextSat]_vars

\* one mixer set over the parameter ranges and handed frames of any size
NextMixer ==
    /\ \/ \E p \in MixSettings : MixUnitSet(p)
       \/ \E d, e, l \in MixLevels : \E s, t \in { -1, 1 } :
             MixUnitProcess(MixFrame(d, e, l, s, t))
    /\ UNCHANGED << coreVars, twin, mat, sat, osmHist, probe, bench >>

SpecMixer == Init /\ [][NextMixer]_vars

\* the OversamplingManager prepared with one factor after another
NextOsm ==
    /\ \E factor \in 0..2 : OsmUnitPrepare(factor)
    /\ UNCHANGED << param, smooth, proc, fdn, dvnArgs, obs, vnVars, dvnVars, fdnVars,
                    twin, mat, sat, mixIO, probe, bench >>

SpecOsm == Init /\ [][NextOsm]_vars

\* the FDN under the impulse runs and the driven run
NextProbe ==
    /\ \/ \E p \in ProbeSettings : ProbeArm(p)
       \/ ProbeStep
       \/ ProbeTurn
    /\ UNCHANGED << coreVars, twin, mat, sat, mixIO, osmHist, bench >>

SpecProbe == Init /\ [][NextProbe]_vars

\* an attenuation filter given one set of coefficients after another
NextShelf ==
    /\ \E gL \in ShelfGains : \E gH \in ShelfGains : \E h \in ShelfDampings :
          ShelfSet(gL, gH, h)
    /\ UNCHANGED << coreVars, unitVars >>

SpecShelf == Init /\ [][NextShelf]_vars

\* the diffusion blend on one vector after another, a channel or the
\* diffusion changing from call to call
NextBlend ==
    /\ \/ \E i \in Channels : \E level \in MatLevels :
             /\ Cardinality({ j \in Channels \ { i } : bench.blend.v[j] # 0 }) < BlendActive
             /\ BlendApply(bench.blend.d, [bench.blend.v EXCEPT ![i] = level])
       \/ \E d \in BlendDiffusions : BlendApply(d, bench.blend.v)
    /\ UNCHANGED << coreVars, unitVars >>

SpecBlend == Init /\ [][NextBlend]_vars

\* a delay line written, set and read
NextLine ==
    /\ \/ \E x \in LineLevels : LineWrite(x)
       \/ \E d \in LineDelays : LineSetDelay(d)
       \/ LineRead
    /\ UNCHANGED << coreVars, unitVars >>

SpecLine == Init /\ [][NextLine]_vars

\* the limiter and the write on one channel, value after value
NextLimit ==
    /\ \/ \E x \in LimitLevels : LimitWrite(bench.limit.diffused, x)
       \/ \E d \in LimitDiffused : LimitWrite(d, bench.limit.processed)
    /\ UNCHANGED << coreVars, unitVars >>

SpecLimit == Init /\ [][NextLimit]_vars

\* setCoefficients, process and reset on one filter, in any order
NextFilt ==
    /\ \/ /\ bench.filt.sets < FiltSets
          /\ \E gL \in FiltGains : \E gH \in FiltGains : \E h \in FiltDampings :
                FiltSet(gL, gH, h)
       \/ /\ bench.filt.calls < FiltRun
          /\ \E x \in FiltInputs : FiltProcess(x)
       \/ FiltReset
    /\ UNCHANGED << coreVars, unitVars >>

SpecFilt == Init /\ [][NextFilt]_vars

\* the audio thread inside processBlock and the message thread, interleaved
NextBlk ==
    /\ \/ BlkEnter
       \/ BlkAdvance
       \/ BlkReturn
       \/ \E c \in BlkHostCells : \E v \in BlkValues(c) : BlkHostWrite(c, v)
    /\ UNCHANGED << coreVars, unitVars >>

SpecBlk == Init /\ [][NextBlk]_vars

\* runs of DifCalls calls of the diffuser, each with its own drive
NextDif ==
    /\ \/ \E c \in Channels : \E v \in DifLevels : \E h \in BOOLEAN : DifArm(c, v, h)
       \/ DifProcess
    /\ UNCHANGED << coreVars, unitVars >>

SpecDif == Init /\ [][NextDif]_vars

\* pulse sequences generated for several rates and seeds, pulse by pulse
NextPul ==
    /\ \/ \E sr \in PulRates : \E seed \in PulSeeds : PulGenerateOvn(sr, seed)
       \/ \E sr \in PulRates : \E seed \in PulSeeds : PulGenerateDvn(sr, seed)
       \/ PulIterate
    /\ UNCHANGED << coreVars, unitVars >>

SpecPul == Init /\ [][NextPul]_vars

\* new engines, each with its first snapshot, running on silence
NextHush ==
    /\ \/ \E p \in FdnSettings : \E sr \in HushRates : HushArm(p, sr)
       \/ HushStep
    /\ UNCHANGED << coreVars, unitVars >>

SpecHush == Init /\ [][NextHush]_vars

\* a tail prepared, fed blocks of signal or silence, and prepared again
NextAgain ==
    /\ \/ AgainPrepare
       \/ \E kind \in VnInputs : AgainBlock(kind, DvnMaxBlock)
    /\ UNCHANGED << coreVars, unitVars >>

SpecAgain == Init /\ [][NextAgain]_vars


(***************************************************************************)
(* Properties.                                                             *)
(***************************************************************************)
AllZero(block) == \A n \in 1..Len(block) : block[n] = 0

\* C1: an oversampling-factor change is applied at the start of the block
\* that reads it, in the order suspend, initializeOversampling, record,
\* resume, before any processSample; a block that reads the factor last
\* prepared performs no re-prepare; every processSample runs unsuspended
\* with the FDN at baseRate * 2^factor of the oversampler used for the
\* block; processing is never left suspended.
C1_OversamplingSequenced ==
    /\ ~proc.suspended
    /\ proc.prepared =>
         /\ osm.currentFactor = proc.lastOversamplingFactor
         /\ fdn.sr = proc.currentSampleRate * Pow2(proc.lastOversamplingFactor)
    /\ obs.blocks > 0 =>
         /\ proc.lastOversamplingFactor = obs.osRead
         /\ IF obs.osRead # obs.osBefore
            THEN /\ Len(obs.log) >= 4
                 /\ obs.log[1].op = "suspend" /\ obs.log[1].suspended
                 /\ obs.log[2].op = "initializeOversampling" /\ obs.log[2].suspended
                 /\ obs.log[3].op = "recordFactor" /\ obs.log[3].suspended
                 /\ obs.log[4].op = "resume" /\ ~obs.log[4].suspended
                 /\ \A k \in 5..Len(obs.log) : obs.log[k].op = "processSample"
            ELSE \A k \in 1..Len(obs.log) : obs.log[k].op = "processSample"
         /\ \A k \in 1..Len(obs.log) :
              obs.log[k].op = "processSample" =>
                /\ ~obs.log[k].suspended
                /\ obs.log[k].sr = obs.log[k].osRate
                /\ obs.log[k].osRate = proc.currentSampleRate * Pow2(obs.osRead)

\* a block that read a new factor, re-prepared and then ran the FDN
C1_Witness ==
    /\ obs.blocks > 1
    /\ obs.osRead # obs.osBefore
    /\ Len(obs.log) = 5
    /\ obs.log[5].op = "processSample"

\* C2: in every reachable state, also across oversampling changes, every
\* delay line is set to a delay that fits the buffer allocated by the most
\* recent prepare, and no read of any processed block went beyond it.
C2_DelaysFit ==
    /\ ~obs.overrun
    /\ proc.prepared => \A i \in Channels : DelayFits(fdn.lineDelay[i], fdn.bufferSize)

\* C3: after prepareToPlay no processBlock allocates or resizes a buffer.
C3_NoAllocation == obs.allocs = 0 /\ obs.resizes = 0

\* C4: every output sample of the L1 convolver equals the sum over the
\* pulses of coeff_k * x[t - position_k] over the concatenated input stream.
C4_ConvolutionExact ==
    \A n \in 1..Len(vnOut) :
        vnOut[n] = VnDirect(Ovn, vnHist, Len(vnHist) - Len(vnOut) + n, 1, AudioOne)

\* C5: every output sample of the L3 running-window convolution equals the
\* direct box-car sum over the concatenated input stream, and the oldest
\* sample any pulse reaches in a block is still in the ring buffer.
C5_WindowExact ==
    /\ \A n \in 1..Len(dvnOut) :
          dvnOut[n] = Mul(DvnDirect(dvn, dvnHist, Len(dvnHist) - Len(dvnOut) + n, 1),
                          AudioOne)
    /\ \A k \in 1..Len(dvn.pulses) :
          dvn.pulses[k].envelope # 0 =>
             dvn.pulses[k].position + dvn.pulses[k].width + Len(dvnOut) - 2 < dvn.ringSize

\* blocks have been processed past the point where the ring buffer wraps,
\* with parameters changed on the way, and the output is not silence
C5_Witness ==
    /\ Len(dvnHist) > dvn.ringSize
    /\ dvnWrites > 0
    /\ Len(dvnOut) = DvnMaxBlock
    /\ \E n \in 1..Len(dvnOut) : dvnOut[n] # 0

\* C6: once decayShape and lowRT60 have been held for a ramp length of
\* processed samples before a block, that block hands their targets to
\* DarkVelvetNoise::setParameters.
C6_TailFollows ==
    obs.dvnSet =>
       /\ obs.held["decayShape"] >= proc.stepsToTarget + obs.numSamples
             => dvnArgs.decayShape = smooth["decayShape"].tgt
       /\ obs.held["lowRT60"] >= proc.stepsToTarget + obs.numSamples
             => dvnArgs.rt60 = smooth["lowRT60"].tgt

\* C7: a block of N samples advances the pre-delay smoother and the four
\* mix smoothers by exactly N steps each, whatever the channel count and
\* the bypass flags; a target held for a ramp length of processed samples
\* is the value applied, and the smoother rests on it.
C7_MixAdvances ==
    obs.blocks > 0 =>
       \A n \in MixSmoothed \cup { "preDelay" } :
          /\ obs.adv[n] = obs.numSamples
          /\ obs.held[n] >= proc.stepsToTarget =>
                /\ obs.applied[n] = smooth[n].tgt
                /\ smooth[n].cur = smooth[n].tgt

\* a stereo block with the FDN bypassed, after the pre-delay was moved
\* following prepareToPlay and its ramp has run out
C7_Witness ==
    /\ obs.blocks > 0
    /\ obs.numChannels = 2
    /\ param["bypassFDN"] = 1
    /\ smooth["preDelay"].step # 0
    /\ obs.held["preDelay"] >= proc.stepsToTarget
    /\ obs.applied["preDelay"] = param["preDelay"]

\* C8: after 20 consecutive full blocks of silent input with dryWet = 0 the
\* output peak is below 1e-3, whatever the wet layers put out.
C8_SilencePreserved == obs.silentRun >= SilenceBlocks => obs.outPeak < 1

\* 20 silent blocks at dryWet = 0, dryWet having been brought to 0 by a
\* ramp after prepareToPlay
C8_Witness ==
    /\ obs.silentRun >= SilenceBlocks
    /\ smooth["dryWet"].step # 0
    /\ smooth["dryWet"].cur = 0

\* C9: after FDNReverb::reset, with the parameters set before it, silence
\* in gives zero on every output sample.
C9_ResetSilences ==
    fdnQuiet >= 1 => \A n \in 1..Len(fdnOut) : fdnOut[n] = << 0, 0 >>

\* C10: after reset of the L1 convolver, silence in gives zero out in every
\* later block.
C10_VelvetResetSilences == vnQuiet >= 1 => AllZero(vnOut)


RECURSIVE SumSq(_, _)
SumSq(x, i) ==
    IF i > NUM_CHANNELS THEN 0 ELSE (x[i] \div 1000) * (x[i] \div 1000) + SumSq(x, i + 1)

\* what truncating the entries to 1e-4 can take from SumSq
RECURSIVE SumSqSlack(_, _)
SumSqSlack(x, i) ==
    IF i > NUM_CHANNELS THEN 0 ELSE 2 * Abs(x[i] \div 1000) + 1 + SumSqSlack(x, i + 1)

\* row i of the matrix with both sign masks, before the 1 / sqrt (8)
SignedRow(x, i) ==
    outputSigns[i] * (  hadamard[i][1] * inputSigns[1] * x[1] + hadamard[i][2] * inputSigns[2] * x[2]
                      + hadamard[i][3] * inputSigns[3] * x[3] + hadamard[i][4] * inputSigns[4] * x[4]
                      + hadamard[i][5] * inputSigns[5] * x[5] + hadamard[i][6] * inputSigns[6] * x[6]
                      + hadamard[i][7] * inputSigns[7] * x[7] + hadamard[i][8] * inputSigns[8] * x[8])

\* C12: the feedback matrix with its sign masks preserves energy: the rows
\* before normalisation carry exactly 8 times the energy of the input (the
\* Hadamard rows are orthogonal, the masks are +-1), 8 * norm^2 is 1 to
\* within 0.3 %, and the sum of squares of process (v) equals that of v to
\* within 0.5 % plus the rounding of the entries.
C12_EnergyPreserved ==
    /\ SumSq([i \in Channels |-> SignedRow(mat.x, i) \div 10], 1) * 25
         = (NUM_CHANNELS \div 4) * SumSq(mat.x, 1)
    /\ Abs(NUM_CHANNELS * HadamardNorm * HadamardNorm - AudioOne * AudioOne)
         <= 3 * AudioOne
    /\ Abs(SumSq(mat.y, 1) - SumSq(mat.x, 1))
         <= SumSq(mat.x, 1) \div 200 + SumSqSlack(mat.y, 1)

\* the matrix was handed a vector with energy on several channels of both
\* signs and returned a non-zero vector
C12_Witness ==
    /\ mat.calls = 1
    /\ \E i, j \in Channels : mat.x[i] > 0 /\ mat.x[j] < 0
    /\ \E i \in Channels : mat.y[i] # 0


\* C13: with satAmount = 0, whatever drive, type and asymmetry are set and
\* whatever the input, every process call returns its input unchanged and
\* leaves the DC-blocker registers as they were.
C13_OffTransparent ==
    (sat.ran /\ sat.before.amount = 0) =>
        /\ sat.out = ToFine(sat.in)
        /\ sat.peak = Abs(ToFine(sat.in))
        /\ sat.untouched

\* a run at amount 0 with asymmetry set, on an object whose registers an
\* earlier run left non-zero
C13_Witness ==
    /\ sat.ran
    /\ sat.before.amount = 0
    /\ sat.untouched
    /\ AsymmetryActive(sat.before.asymmetryOffset)
    /\ sat.in # 0
    /\ sat.before.dcX1[1] # 0
    /\ sat.before.dcY1[1] # 0


\* C14: after reset (), whatever amount, drive, type and asymmetry were in
\* force and whatever was processed before, process (0) returns 0 and keeps
\* returning 0 for as long as the input stays 0.
C14_ResetThenSilent ==
    (sat.ran /\ sat.zeros > 0) => sat.zeroPeak = 0


\* C15: with satAmount = 100 % and satDrive = 24 dB every output of
\* Saturation::process has |y| <= 1.3 for every input sequence with
\* |x| <= 1, for each of the four types and any asymmetry setting.
C15_Bounded ==
    (sat.ran /\ sat.before.amount = AudioOne /\ sat.before.driveLinear = DbToGain(240)) =>
        sat.peak <= 13 * (FineOne \div 10)


\* the soft clipper over [-1.6, 1.6]
SoftClipCurve == [x \in -1600..1600 |-> softClip(x)]

\* C16: every output sample of the mixer lies in [-1, +1] whatever the
\* dry, early, late and tail samples and the gains and width in force; the
\* soft clipper follows x - x^3/6.75 up to |x| = 1.5 (0.6875 at 0.75),
\* reaches exactly +-1 at +-1.5, is exactly +-1 beyond, and is monotone.
C16_MixBounded ==
    /\ \A c \in 1..2 : mixIO.out[c] >= -AudioOne /\ mixIO.out[c] <= AudioOne
    /\ SoftClipCurve[1500] = AudioOne /\ SoftClipCurve[-1500] = -AudioOne
    /\ SoftClipCurve[0] = 0
    /\ SoftClipCurve[750] \in { 687, 688 } /\ SoftClipCurve[-750] = -SoftClipCurve[750]
    /\ \A x \in 1501..1600 : SoftClipCurve[x] = AudioOne /\ SoftClipCurve[-x] = -AudioOne
    /\ \A x \in -1600..1599 : SoftClipCurve[x] <= SoftClipCurve[x + 1]
    /\ softClip(MixPeak) = AudioOne /\ softClip(-MixPeak) = -AudioOne

\* the mixer at full wet with +6 dB on both levels was handed the largest
\* samples and returned full scale on one channel
C16_Witness ==
    /\ mixIO.calls = 1
    /\ mixIO.mx.wet = AudioOne
    /\ mixIO.mx.lateGain > AudioOne
    /\ mixIO.in.lateL = MixPeak
    /\ \E c \in 1..2 : Abs(mixIO.out[c]) = AudioOne


\* C17: after any sequence of prepare calls whose last factor is f in
\* {0, 1, 2}, getOversampledRate (base) is base, 2 base or 4 base for f =
\* 0, 1, 2, the reported latency is zero exactly when f = 0, and an
\* oversampler exists exactly when f > 0, whatever was prepared before.
C17_RateAndLatency ==
    Len(osmHist) > 0 =>
        /\ getOversampledRate(osm, BaseRate)
              = << BaseRate, 2 * BaseRate, 4 * BaseRate >>[osmHist[Len(osmHist)] + 1]
        /\ (getLatencyInSamples(osm) = 0) <=> (osmHist[Len(osmHist)] = 0)
        /\ (osm.oversampler # -1) <=> (osmHist[Len(osmHist)] > 0)
        /\ getLatencyInSamples(osm) >= 0

\* prepared with 4x, then 2x, then off
C17_Witness ==
    /\ Len(osmHist) >= 3
    /\ osmHist[Len(osmHist) - 2] = 2
    /\ osmHist[Len(osmHist) - 1] = 1
    /\ osmHist[Len(osmHist)] = 0
    /\ getLatencyInSamples(osm) = 0

\* C18: every output of FDNReverb::processSample stays within +-10 on
\* inputs within +-1, whatever the parameter snapshot.
C18_OutputBounded == probe.peak <= 10 * FineOne

\* C19: with dryWet = 0 in force for the whole block (the smoother at 0
\* since before the block began), a block of unit-amplitude noise gives an
\* output whose peak is at most 1e-3.
C19_NoiseSilenced ==
    (  /\ obs.blocks >= 1
       /\ param["dryWet"] = 0
       /\ smooth["dryWet"].cur = 0
       /\ obs.held["dryWet"] >= proc.stepsToTarget + obs.numSamples )
      => obs.outPeak <= AudioOne \div 1000

\* the diffuser's output for the inputs x, y of the next processSample call
NextDiffused(x, y) ==
    DiffuserRun(fdnAudio.diffuser, 1,
                [i \in Channels |-> TruncDiv(IF (i - 1) % 2 = 0 THEN x ELSE y, 2)]).out

\* input pairs tried for the next call
TapInputs == { << FineOne, -3333333 >>, << -FineOne, 0 >>, << 0, FineOne >> }

\* q is the next processSample call on silence and dq the diffuser's output
\* in it, r the same call on other inputs and dr the diffuser's output in it
WrittenOnceAfterRead(q, dq, r, dr) ==
    /\ r.outL = q.outL
    /\ r.outR = q.outR
    /\ ~fdnAudio.bypassAttenFilter =>
          /\ r.outL = killDenormal(TruncDiv(r.a.zOut1[1] + r.a.zOut1[3] + r.a.zOut1[5]
                                              + r.a.zOut1[7], 2))
          /\ r.outR = killDenormal(TruncDiv(r.a.zOut1[2] + r.a.zOut1[4] + r.a.zOut1[6]
                                              + r.a.zOut1[8], 2))
    /\ \A i \in Channels :
          /\ r.a.writePos[i] = (fdnAudio.writePos[i] + 1) % fdn.bufferSize
          /\ r.a.buffers[i] = [fdnAudio.buffers[i] EXCEPT ![fdnAudio.writePos[i]] =
                                  r.a.buffers[i][fdnAudio.writePos[i]]]
          /\ r.a.buffers[i][fdnAudio.writePos[i]] - dr[i]
               = q.a.buffers[i][fdnAudio.writePos[i]] - dq[i]
          /\ Abs(r.a.buffers[i][fdnAudio.writePos[i]] - dr[i]) <= 2 * FineOne

\* C20: whatever the inputs of a processSample call, its two outputs are
\* those of the same call on silence, taken from the attenuated delay-line
\* reads; the call leaves every delay line as it was except for the one
\* slot at the write position, which receives diffused + processed with
\* processed independent of the call's inputs, and advances each write
\* position by one.
C20_ReadThenWrite ==
    fdnRuns.prepared =>
      \E q \in { FdnProcessSample(fdn, fdnAudio, 0, 0) } :
        \E dq \in { NextDiffused(0, 0) } :
          \A in \in TapInputs :
            \E r \in { FdnProcessSample(fdn, fdnAudio, in[1], in[2]) } :
              \E dr \in { NextDiffused(in[1], in[2]) } :
                WrittenOnceAfterRead(q, dq, r, dr)

\* the FDN rings with its saturators off: the last block put out sound,
\* the diffuser holds sound and the next call puts out sound and writes
\* sound
C20_Witness ==
    /\ fdnRuns.prepared
    /\ fdnAudio.amount = 0
    /\ fdnRuns.blocks >= 1
    /\ \E n \in 1..Len(fdnOut) : fdnOut[n][1] # 0
    /\ \E i \in Channels : NextDiffused(0, 0)[i] # 0
    /\ \E r \in { FdnProcessSample(fdn, fdnAudio, FineOne, -FineOne) } :
          /\ r.outL # 0
          /\ r.outR # 0
          /\ \E i \in Channels : r.a.buffers[i][fdnAudio.writePos[i]] # 0

\* C21: the coefficients setCoefficients leaves give a DC gain
\* (b0 + b1) / (1 + a1) equal to gLow and a Nyquist gain
\* (b0 - b1) / (1 - a1) equal to gHigh, each to within 0.05, with a1 inside
\* the unit circle, so that both band-edge gains are below 1.
C21_BandEdgeGains ==
    bench.shelf.set =>
      LET c == bench.shelf.coef
      IN  /\ Abs(c.a1) <= AudioOne
          /\ Abs((c.b0 + c.b1) * AudioOne - bench.shelf.gL * (AudioOne + c.a1))
                <= 50 * (AudioOne + c.a1)
          /\ Abs((c.b0 - c.b1) * AudioOne - bench.shelf.gH * (AudioOne - c.a1))
                <= 50 * (AudioOne - c.a1)
          /\ c.b0 + c.b1 <= AudioOne + c.a1
          /\ Abs(c.b0 - c.b1) <= AudioOne - c.a1

\* C22: the feedback vector is the attenuated vector itself at diffusion 0
\* and M a at diffusion 1; in between it is the blend rescaled to the
\* energy of a; in every case its sum of squares is at most that of a (to
\* within 2 %, the resolution of the norm in thousandths, plus the rounding
\* of the entries).
C22_BlendNoGain ==
    bench.blend.calls > 0 =>
      LET b == bench.blend
          tol == SumSq(b.x, 1) \div 50 + SumSqSlack(b.y, 1)
      IN  /\ b.d < 1 => b.y = b.x
          /\ b.d > 999 => b.y = FeedbackMatrixProcess(b.x)
          /\ (b.d >= 1 /\ b.d <= 999 /\ Energy(b.x) > 0 /\ SumSq(b.y, 1) > 0) =>
                Abs(SumSq(b.y, 1) - SumSq(b.x, 1)) <= tol
          /\ SumSq(b.y, 1) <= SumSq(b.x, 1) + tol

\* a partial blend of a vector with energy on channels of both signs came
\* out different from the vector
C22_Witness ==
    /\ bench.blend.calls > 0
    /\ bench.blend.d = 500
    /\ \E i, j \in Channels : bench.blend.x[i] > 0 /\ bench.blend.x[j] < 0
    /\ bench.blend.y # bench.blend.x
    /\ SumSq(bench.blend.y, 1) > 0

\* the delay request held to the range the buffer was prepared for
LineClamped(delay) == Max(0, Min(100 * LineMaxDelay, delay))

\* C23: read returns the sample at the delay request saturated to the range
\* prepared for, and every buffer index it uses is inside the buffer.
C23_DelaySaturates ==
    bench.line.read =>
      /\ bench.line.out = DelayRead(bench.line.buffer, bench.line.bufferSize,
                                    bench.line.writePos,
                                    LineClamped(bench.line.currentDelay))
      /\ ReadTaps(bench.line.bufferSize, bench.line.writePos, bench.line.currentDelay)
            \subseteq 0..(bench.line.bufferSize - 1)

\* C24: after the safety clamp a channel's feedback value is within +-2,
\* values within +-2 pass unchanged, and the sample written to the delay
\* line is the diffused input plus the clamped value, so within 2 of the
\* diffused input.
C24_ClampBounds ==
    bench.limit.calls > 0 =>
      /\ Abs(bench.limit.clamped) <= 2 * FineOne
      /\ Abs(bench.limit.processed) <= 2 * FineOne
            => bench.limit.clamped = bench.limit.processed
      /\ bench.limit.written = bench.limit.diffused + bench.limit.clamped
      /\ Abs(bench.limit.written) <= 2 * FineOne + Abs(bench.limit.diffused)

\* a value below -2 was clamped and written on top of a diffused input
C24_Witness ==
    /\ bench.limit.calls > 0
    /\ bench.limit.processed < -(2 * FineOne)
    /\ bench.limit.clamped # bench.limit.processed
    /\ bench.limit.clamped < -FineOne
    /\ bench.limit.diffused # 0

\* C25: shelf coefficients are smoothed.  The first sample processed after
\* setCoefficients moved b0 by more than 1 % is not yet filtered with the
\* target b0: with both registers at zero the output differs from
\* b0 * input.
C25_CoefficientsSmoothed ==
    ( /\ bench.filt.sets > 0
      /\ bench.filt.since = 1
      /\ Abs(bench.filt.coef.b0 - bench.filt.before.b0) > 10
      /\ bench.filt.held = [z1 |-> 0, zOut1 |-> 0] )
      => bench.filt.y # MulWide(bench.filt.x, bench.filt.coef.b0)

\* C26: within one processBlock call every parameter cell is loaded at most
\* once and the oversampling factor exactly once, whatever the host stores
\* meanwhile; the factor compared with the last one, the factor the engine
\* is re-prepared with and the factor recorded as last used are the value
\* of that one load.
C26_LoadedOnce ==
    LET b == bench.blk
    IN  /\ \A c \in BlockCells : b.loads[c] <= 1
        /\ b.pc > 1 => b.loads["oversampling"] = 1
        /\ b.pc > 1 => b.osFactor = b.seen["oversampling"]
        /\ b.compared # -1 => b.compared = b.seen["oversampling"]
        /\ b.prepared # -1 => b.prepared = b.compared /\ b.changed
        /\ b.recorded # -1 =>
              /\ b.recorded = b.prepared
              /\ b.lastOversamplingFactor = b.compared
        /\ (b.pc > BlkAt.record /\ b.changed) => b.recorded # -1
        /\ (b.pc > BlkAt.record /\ ~b.changed) =>
              b.prepared = -1 /\ b.lastOversamplingFactor = b.compared

\* a call has re-prepared and recorded a factor that the host has already
\* replaced in the cell, and has finished its other loads
C26_Witness ==
    /\ bench.blk.pc = BlkEnd
    /\ bench.blk.changed
    /\ bench.blk.recorded = bench.blk.seen["oversampling"]
    /\ bench.blk.cells["oversampling"] # bench.blk.recorded
    /\ bench.blk.loads["dryWet"] = 1
    /\ bench.blk.cells["dryWet"] # bench.blk.seen["dryWet"]

\* the sample channel ch of step st held delaySamples[ch] calls before the
\* last call (0 when the step had not been written that long ago)
C27_Delayed(st, ch) ==
    LET n == bench.dif.calls
        d == bench.dif.df.delaySamples[st][ch]
    IN  IF n - d >= 1 THEN bench.dif.hist[st][ch][n - d] ELSE 0

\* channel (ch + step + 1) mod 8 for 0-based ch and step, as a 1-based channel
C27_Source(st, ch) == (((ch - 1) + (st - 1) + 1) % NUM_CHANNELS) + 1

\* the Hadamard mix of flipSign[ch] times the delayed sample of the source
\* channel of ch
C27_Mixed(st) ==
    HadamardMix([ch \in Channels |-> flipSign[st][ch] * C27_Delayed(st, C27_Source(st, ch))])

\* C27: in each of the 4 diffuser steps every channel is delayed by exactly
\* its delaySamples[ch] >= 1 calls, output channel ch takes flipSign[ch]
\* times the delayed sample of channel (ch + step + 1) mod 8, the shuffle is
\* a bijection of the 8 channels, and the step keeps the sum of squares of
\* the delayed samples (to 1 %, the precision of the model's 1 / sqrt (8)).
C27_DelayShuffle ==
    bench.dif.calls > 0 =>
      \A st \in Steps :
        /\ \A ch \in Channels :
              /\ bench.dif.df.delaySamples[st][ch] >= 1
              /\ flipSign[st][ch] \in { -1, 1 }
              /\ Len(bench.dif.hist[st][ch]) = bench.dif.calls
        /\ { C27_Source(st, ch) : ch \in Channels } = Channels
        /\ \E mixed \in { C27_Mixed(st) } :
              /\ IF st < NUM_STEPS
                 THEN \A ch \in Channels :
                        bench.dif.hist[st + 1][ch][bench.dif.calls] = mixed[ch]
                 ELSE bench.dif.out = mixed
              /\ \E e \in { SumSq([ch \in Channels |-> C27_Delayed(st, ch)], 1) } :
                    Abs(SumSq(mixed, 1) - e)
                      <= e \div 100 + SumSqSlack(mixed, 1)

\* late in a run the last step reads samples written more than one call
\* earlier and puts out a non-zero vector whose channels differ
C27_Witness ==
    /\ bench.dif.calls = DifCalls
    /\ \E ch \in Channels :
          /\ bench.dif.df.delaySamples[NUM_STEPS][ch] > 1
          /\ bench.dif.df.delaySamples[NUM_STEPS][ch] < DifCalls
          /\ C27_Delayed(NUM_STEPS, ch) # 0
    /\ \E ch \in Channels : bench.dif.out[ch] > 0
    /\ \E ch \in Channels : bench.dif.out[ch] < 0

\* the first two values of the LCG x <- (1664525 x + 1013904223) mod 2^32
\* from the seeds 0xDEADBEEF and 0, as 16-bit halves
C28_Reference ==
    /\ LcgDraws(VnSeed, 2) = << << 27307, 57218 >>, << 62953, 6393 >> >>
    /\ LcgDraws(<< 0, 0 >>, 2) = << << 15470, 62303 >>, << 18256, 10546 >> >>

\* C28: pulse generation is well formed for every seed and sample rate: the
\* grid is max(1, floor(sampleRate / density)), the LCG is the 32-bit
\* x <- 1664525 x + 1013904223, pulse m lies in grid cell [m g, (m+1) g),
\* positions increase strictly and stay below the sequence length, the sign
\* is -1 exactly when the top bit of the next LCG value is set, and the L3
\* generator pushes at most 500 pulses, each of width 1..4.
C28_PulsesWellFormed ==
    LET p == bench.pul
        density == IF p.kind = "ovn" THEN 2000 ELSE 1800
    IN  p.kind # "none" =>
          /\ C28_Reference
          /\ p.gridSize >= 1
          /\ p.gridSize = (IF p.sr \div density < 1 THEN 1 ELSE p.sr \div density)
          /\ p.count = p.m
          /\ p.kind = "dvn" => p.count <= 500
          /\ p.m > 0 =>
                /\ p.last.position >= (p.m - 1) * p.gridSize
                /\ p.last.position < p.m * p.gridSize
                /\ p.last.position < p.length
                /\ p.last.position > p.before
                /\ p.last.sign = (IF p.drawn[2][1] >= 32768 THEN -1 ELSE 1)
                /\ p.last.position - (p.m - 1) * p.gridSize
                      = ((p.drawn[1][1] % p.gridSize) * (65536 % p.gridSize)
                           + p.drawn[1][2]) % p.gridSize
                /\ p.kind = "dvn" => p.last.width \in 1..4
                /\ p.kind = "dvn" => p.last.width = 1 + (p.drawn[3][2] % 4)

\* the L3 loop has stopped at its cap of 500 pulses, short of the cells the
\* sequence has room for, with a negative pulse of width 4 pushed last
C28_Witness ==
    /\ bench.pul.kind = "dvn"
    /\ bench.pul.m = bench.pul.numPulses
    /\ bench.pul.count = 500
    /\ bench.pul.length \div bench.pul.gridSize > 500
    /\ bench.pul.gridSize > 1
    /\ bench.pul.last.sign = -1
    /\ bench.pul.last.width = 4

\* C29: a freshly prepared engine generates no signal of its own: after
\* prepare and the first setParameters, whatever the snapshot, zero input to
\* processSample gives exactly zero output on every sample.
C29_FreshEngineSilent == bench.hush.armed => bench.hush.peak = 0

\* C30: prepare leaves no audio state from before it: a tail prepared again
\* with the same sample rate and block size on a tail that has processed
\* audio, silent input afterwards produces silent output.
C30_PrepareLeavesNothing ==
    (bench.again.prepares = AgainPrepares /\ bench.again.quiet) =>
       \A n \in 1..Len(bench.again.out) : bench.again.out[n] = 0

=============================================================================
